---- MODULE Spec2Model ----
(***************************************************************************)
(* A model of tango: the server request handler (createHandler), the       *)
(* middleware registry, the pipeline executor, and the client proxy with   *)
(* its transport.  Strings that the code inspects character by character   *)
(* (route names, URL tails) are sequences of one-character strings.        *)
(***************************************************************************)
EXTENDS Integers, Sequences, FiniteSets, TLC

(***************************************************************************)
(* Bounds of the model.                                                    *)
(***************************************************************************)
\* how many middleware the server side attaches to API nodes in one behaviour
MaxAttach == 2
\* how many middleware the cfg assignments register in one behaviour
MaxAssign == 2
\* how many times, in one client call, a middleware calls next() again
MaxAgain == 1

(***************************************************************************)
(* Characters and camelToKebabCase.                                        *)
(***************************************************************************)
LowerChars == <<"a","b","c","d","e","f","g","h","i","j","k","l","m",
                "n","o","p","q","r","s","t","u","v","w","x","y","z">>
UpperChars == <<"A","B","C","D","E","F","G","H","I","J","K","L","M",
                "N","O","P","Q","R","S","T","U","V","W","X","Y","Z">>
DigitChars == <<"0","1","2","3","4","5","6","7","8","9">>

Range(s) == { s[i] : i \in 1..Len(s) }

IsUpper(c) == c \in Range(UpperChars)
IsLower(c) == c \in Range(LowerChars)
IsDigit(c) == c \in Range(DigitChars)

\* String.prototype.toLowerCase on one character
ToLowerChar(c) ==
  IF IsUpper(c)
    THEN LowerChars[CHOOSE i \in 1..Len(UpperChars) : UpperChars[i] = c]
    ELSE c

RECURSIVE ToLowerCase(_)
ToLowerCase(s) ==
  IF s = <<>> THEN <<>> ELSE <<ToLowerChar(Head(s))>> \o ToLowerCase(Tail(s))

\* .replace(/([a-z0-9])([A-Z])/g, "$1-$2"): scan left to right; a match
\* consumes both characters, the scan resumes after it.
RECURSIVE ReplaceLowerUpper(_)
ReplaceLowerUpper(s) ==
  IF Len(s) = 0 THEN <<>>
  ELSE IF Len(s) >= 2 /\ (IsLower(s[1]) \/ IsDigit(s[1])) /\ IsUpper(s[2])
    THEN <<s[1], "-", s[2]>> \o ReplaceLowerUpper(SubSeq(s, 3, Len(s)))
    ELSE <<s[1]>> \o ReplaceLowerUpper(Tail(s))

\* length of the run of upper-case characters at the start of s
RECURSIVE UpperRun(_)
UpperRun(s) ==
  IF Len(s) = 0 \/ ~IsUpper(s[1]) THEN 0 ELSE 1 + UpperRun(Tail(s))

\* variant: the second replace is left out
ReplaceAcronymNone(s) == s

\* .replace(/([A-Z]+)([A-Z][a-z])/g, "$1-$2"): [A-Z]+ is greedy and gives
\* back one character, so a match at the start of s is a run of n >= 2
\* upper-case characters followed by a lower-case one.
RECURSIVE ReplaceAcronym(_)
ReplaceAcronym(s) ==
  IF Len(s) = 0 THEN <<>>
  ELSE LET n == UpperRun(s) IN
    IF n >= 2 /\ Len(s) >= n + 1 /\ IsLower(s[n + 1])
      THEN SubSeq(s, 1, n - 1) \o <<"-", s[n], s[n + 1]>>
             \o ReplaceAcronym(SubSeq(s, n + 2, Len(s)))
      ELSE <<s[1]>> \o ReplaceAcronym(Tail(s))

\* variant: lower-cases only, no hyphen is inserted
camelToKebabCaseLowerOnly(str) == ToLowerCase(str)

camelToKebabCase(str) == ToLowerCase(ReplaceAcronym(ReplaceLowerUpper(str)))

\* Array.prototype.join on a list of strings
RECURSIVE Join(_, _)
Join(parts, sep) ==
  IF Len(parts) = 0 THEN <<>>
  ELSE IF Len(parts) = 1 THEN parts[1]
  ELSE parts[1] \o <<sep>> \o Join(Tail(parts), sep)

\* String.prototype.split on a one-character separator
RECURSIVE SplitFrom(_, _, _)
SplitFrom(s, sep, acc) ==
  IF Len(s) = 0 THEN <<acc>>
  ELSE IF s[1] = sep THEN <<acc>> \o SplitFrom(Tail(s), sep, <<>>)
  ELSE SplitFrom(Tail(s), sep, Append(acc, s[1]))

Split(s, sep) == SplitFrom(s, sep, <<>>)

MapKebab(path) == [i \in 1..Len(path) |-> camelToKebabCase(path[i])]

(***************************************************************************)
(* The API definition handed to createHandler: a tree of groups and        *)
(* endpoint descriptors.  A node is named by its path of property names.   *)
(***************************************************************************)
NPing       == <<"p","i","n","g">>
NUsers      == <<"u","s","e","r","s">>
NGetProfile == <<"g","e","t","P","r","o","f","i","l","e">>
NPosts      == <<"p","o","s","t","s">>
NCreate     == <<"c","r","e","a","t","e">>
NById       == <<"b","y","I","d">>
NRpcType    == <<"r","p","c","T","y","p","e">>
NImpl       == <<"i","m","p","l","e","m","e","n","t","a","t","i","o","n">>
NZodSchema  == <<"z","o","d","S","c","h","e","m","a">>
NNope       == <<"n","o","p","e">>
NShape      == <<"s","h","a","p","e">>
NCached     == <<"_","c","a","c","h","e","d">>
NKeys       == <<"k","e","y","s">>
NToString   == <<"t","o","S","t","r","i","n","g">>
NConstructor == <<"c","o","n","s","t","r","u","c","t","o","r">>
NTitle      == <<"t","i","t","l","e">>
NPage       == <<"p","a","g","e">>
NProto      == <<"_","_","p","r","o","t","o","_","_">>
NDef        == <<"_","d","e","f">>
NDescription== <<"d","e","s","c","r","i","p","t","i","o","n">>
NUParse     == <<"_","p","a","r","s","e">>
NNonstrict  == <<"n","o","n","s","t","r","i","c","t">>
NAugment    == <<"a","u","g","m","e","n","t">>
NMin        == <<"m","i","n">>
NMax        == <<"m","a","x">>
NStep       == <<"s","t","e","p">>
NMinLength  == <<"m","i","n","L","e","n","g","t","h">>
NMaxLength  == <<"m","a","x","L","e","n","g","t","h">>
NMinValue   == <<"m","i","n","V","a","l","u","e">>
NMaxValue   == <<"m","a","x","V","a","l","u","e">>
NIsInt      == <<"i","s","I","n","t">>
NIsFinite   == <<"i","s","F","i","n","i","t","e">>
NUnknownKeys== <<"u","n","k","n","o","w","n","K","e","y","s">>
NTypeName   == <<"t","y","p","e","N","a","m","e">>
NCatchall   == <<"c","a","t","c","h","a","l","l">>
NCoerce     == <<"c","o","e","r","c","e">>
NChecks     == <<"c","h","e","c","k","s">>
NLength     == <<"l","e","n","g","t","h">>
NKind       == <<"k","i","n","d">>
NValue      == <<"v","a","l","u","e">>
NStandard   == <<"~","s","t","a","n","d","a","r","d">>
NValidate   == <<"v","a","l","i","d","a","t","e">>
NVersion    == <<"v","e","r","s","i","o","n">>
NVendor     == <<"v","e","n","d","o","r">>

RootNode == <<>>

\* endpoint descriptors (tango.query / tango.zod(..).command / tango.get)
Descriptors ==
  ( <<NPing>>               :> [rpcType |-> "query",   zodSchema |-> "none"] )
  @@ ( <<NUsers, NGetProfile>> :> [rpcType |-> "query",   zodSchema |-> "page"] )
  @@ ( <<NPosts, NCreate>>     :> [rpcType |-> "command", zodSchema |-> "title"] )
  @@ ( <<NPosts, NById>>       :> [rpcType |-> "get",     zodSchema |-> "none"] )

Endpoints == DOMAIN Descriptors
Groups == { RootNode, <<NUsers>>, <<NPosts>> }

\* the own properties of a descriptor object (makeDescriptor)
DescriptorFields(d) ==
  { NRpcType, NImpl } \cup
  (IF Descriptors[d].zodSchema # "none" THEN { NZodSchema } ELSE {})

(***************************************************************************)
(* The values the route lookup can walk into.  `segment in current` and    *)
(* current[segment] reach every own and inherited member of an object:     *)
(* the nodes of the API tree, Object.prototype, and the objects of the Zod *)
(* schema of a descriptor (zod 3.25: ZodObject, its _def and shape, the    *)
(* schemas of its keys, their checks, the "~standard" object of every      *)
(* schema, and the prototypes of all of them).  The members are those with *)
(* a string name; a name that is not listed is absent.  A ZodObject fills  *)
(* its _cached property ({shape, keys}, null before) the first time it     *)
(* parses an object: cached is the set of the endpoint schemas that have.  *)
(***************************************************************************)
\* a value: its typeof (or null, undefined; absent when there is no such
\* member; throws when reading the member throws), and for an object its
\* class, the tree node it is (at) or the schema it belongs to (of)
Val(kind) == [kind |-> kind, cls |-> "", at |-> <<>>, of |-> ""]
Obj(cls, at, of) == [kind |-> "object", cls |-> cls, at |-> at, of |-> of]
Absent == Val("absent")

\* the functions of Object.prototype
ObjectProtoFunctions ==
  { <<"c","o","n","s","t","r","u","c","t","o","r">>,
    <<"t","o","S","t","r","i","n","g">>,
    <<"t","o","L","o","c","a","l","e","S","t","r","i","n","g">>,
    <<"v","a","l","u","e","O","f">>,
    <<"h","a","s","O","w","n","P","r","o","p","e","r","t","y">>,
    <<"i","s","P","r","o","t","o","t","y","p","e","O","f">>,
    <<"p","r","o","p","e","r","t","y","I","s","E","n","u","m","e","r","a","b","l","e">>,
    <<"_","_","d","e","f","i","n","e","G","e","t","t","e","r","_","_">>,
    <<"_","_","d","e","f","i","n","e","S","e","t","t","e","r","_","_">>,
    <<"_","_","l","o","o","k","u","p","G","e","t","t","e","r","_","_">>,
    <<"_","_","l","o","o","k","u","p","S","e","t","t","e","r","_","_">> }

\* the functions ZodType's constructor binds onto every schema instance
\* (spa is an own property only: the prototype has no such member)
ZodTypeOwnFunctions ==
  { <<"s","p","a">>, <<"p","a","r","s","e">>,
    <<"s","a","f","e","P","a","r","s","e">>,
    <<"p","a","r","s","e","A","s","y","n","c">>,
    <<"s","a","f","e","P","a","r","s","e","A","s","y","n","c">>,
    <<"r","e","f","i","n","e">>, <<"r","e","f","i","n","e","m","e","n","t">>,
    <<"s","u","p","e","r","R","e","f","i","n","e">>,
    <<"o","p","t","i","o","n","a","l">>, <<"n","u","l","l","a","b","l","e">>,
    <<"n","u","l","l","i","s","h">>, <<"a","r","r","a","y">>,
    <<"p","r","o","m","i","s","e">>, <<"o","r">>, <<"a","n","d">>,
    <<"t","r","a","n","s","f","o","r","m">>, <<"b","r","a","n","d">>,
    <<"d","e","f","a","u","l","t">>, <<"c","a","t","c","h">>,
    <<"d","e","s","c","r","i","b","e">>, <<"p","i","p","e">>,
    <<"r","e","a","d","o","n","l","y">>,
    <<"i","s","N","u","l","l","a","b","l","e">>,
    <<"i","s","O","p","t","i","o","n","a","l">> }

\* the methods of ZodType.prototype, ZodObject.prototype, ZodString.prototype,
\* ZodNumber.prototype and Array.prototype
ZodTypeMethods ==
  { <<"c","o","n","s","t","r","u","c","t","o","r">>,
    <<"_","g","e","t","T","y","p","e">>,
    <<"_","g","e","t","O","r","R","e","t","u","r","n","C","t","x">>,
    <<"_","p","r","o","c","e","s","s","I","n","p","u","t","P","a","r","a","m","s">>,
    <<"_","p","a","r","s","e","S","y","n","c">>,
    <<"_","p","a","r","s","e","A","s","y","n","c">>, <<"p","a","r","s","e">>,
    <<"s","a","f","e","P","a","r","s","e">>,
    <<"~","v","a","l","i","d","a","t","e">>,
    <<"p","a","r","s","e","A","s","y","n","c">>,
    <<"s","a","f","e","P","a","r","s","e","A","s","y","n","c">>,
    <<"r","e","f","i","n","e">>, <<"r","e","f","i","n","e","m","e","n","t">>,
    <<"_","r","e","f","i","n","e","m","e","n","t">>,
    <<"s","u","p","e","r","R","e","f","i","n","e">>,
    <<"o","p","t","i","o","n","a","l">>, <<"n","u","l","l","a","b","l","e">>,
    <<"n","u","l","l","i","s","h">>, <<"a","r","r","a","y">>,
    <<"p","r","o","m","i","s","e">>, <<"o","r">>, <<"a","n","d">>,
    <<"t","r","a","n","s","f","o","r","m">>, <<"d","e","f","a","u","l","t">>,
    <<"b","r","a","n","d">>, <<"c","a","t","c","h">>,
    <<"d","e","s","c","r","i","b","e">>, <<"p","i","p","e">>,
    <<"r","e","a","d","o","n","l","y">>,
    <<"i","s","O","p","t","i","o","n","a","l">>,
    <<"i","s","N","u","l","l","a","b","l","e">> }
ZodObjectMethods ==
  { <<"c","o","n","s","t","r","u","c","t","o","r">>,
    <<"_","g","e","t","C","a","c","h","e","d">>, <<"_","p","a","r","s","e">>,
    <<"s","t","r","i","c","t">>, <<"s","t","r","i","p">>,
    <<"p","a","s","s","t","h","r","o","u","g","h">>,
    <<"e","x","t","e","n","d">>, <<"m","e","r","g","e">>,
    <<"s","e","t","K","e","y">>, <<"c","a","t","c","h","a","l","l">>,
    <<"p","i","c","k">>, <<"o","m","i","t">>,
    <<"d","e","e","p","P","a","r","t","i","a","l">>,
    <<"p","a","r","t","i","a","l">>, <<"r","e","q","u","i","r","e","d">>,
    <<"k","e","y","o","f">> }
ZodStringMethods ==
  { <<"c","o","n","s","t","r","u","c","t","o","r">>,
    <<"_","p","a","r","s","e">>, <<"_","r","e","g","e","x">>,
    <<"_","a","d","d","C","h","e","c","k">>, <<"e","m","a","i","l">>,
    <<"u","r","l">>, <<"e","m","o","j","i">>, <<"u","u","i","d">>,
    <<"n","a","n","o","i","d">>, <<"c","u","i","d">>,
    <<"c","u","i","d","2">>, <<"u","l","i","d">>,
    <<"b","a","s","e","6","4">>, <<"b","a","s","e","6","4","u","r","l">>,
    <<"j","w","t">>, <<"i","p">>, <<"c","i","d","r">>,
    <<"d","a","t","e","t","i","m","e">>, <<"d","a","t","e">>,
    <<"t","i","m","e">>, <<"d","u","r","a","t","i","o","n">>,
    <<"r","e","g","e","x">>, <<"i","n","c","l","u","d","e","s">>,
    <<"s","t","a","r","t","s","W","i","t","h">>,
    <<"e","n","d","s","W","i","t","h">>, <<"m","i","n">>, <<"m","a","x">>,
    <<"l","e","n","g","t","h">>, <<"n","o","n","e","m","p","t","y">>,
    <<"t","r","i","m">>, <<"t","o","L","o","w","e","r","C","a","s","e">>,
    <<"t","o","U","p","p","e","r","C","a","s","e">> }
ZodNumberMethods ==
  { <<"c","o","n","s","t","r","u","c","t","o","r">>,
    <<"_","p","a","r","s","e">>, <<"g","t","e">>, <<"g","t">>,
    <<"l","t","e">>, <<"l","t">>, <<"s","e","t","L","i","m","i","t">>,
    <<"_","a","d","d","C","h","e","c","k">>, <<"i","n","t">>,
    <<"p","o","s","i","t","i","v","e">>, <<"n","e","g","a","t","i","v","e">>,
    <<"n","o","n","p","o","s","i","t","i","v","e">>,
    <<"n","o","n","n","e","g","a","t","i","v","e">>,
    <<"m","u","l","t","i","p","l","e","O","f">>, <<"f","i","n","i","t","e">>,
    <<"s","a","f","e">> }
ArrayMethods ==
  { <<"c","o","n","s","t","r","u","c","t","o","r">>, <<"a","t">>,
    <<"c","o","n","c","a","t">>, <<"c","o","p","y","W","i","t","h","i","n">>,
    <<"f","i","l","l">>, <<"f","i","n","d">>,
    <<"f","i","n","d","I","n","d","e","x">>,
    <<"f","i","n","d","L","a","s","t">>,
    <<"f","i","n","d","L","a","s","t","I","n","d","e","x">>,
    <<"l","a","s","t","I","n","d","e","x","O","f">>, <<"p","o","p">>,
    <<"p","u","s","h">>, <<"r","e","v","e","r","s","e">>,
    <<"s","h","i","f","t">>, <<"u","n","s","h","i","f","t">>,
    <<"s","l","i","c","e">>, <<"s","o","r","t">>,
    <<"s","p","l","i","c","e">>, <<"i","n","c","l","u","d","e","s">>,
    <<"i","n","d","e","x","O","f">>, <<"j","o","i","n">>,
    <<"k","e","y","s">>, <<"e","n","t","r","i","e","s">>,
    <<"v","a","l","u","e","s">>, <<"f","o","r","E","a","c","h">>,
    <<"f","i","l","t","e","r">>, <<"f","l","a","t">>,
    <<"f","l","a","t","M","a","p">>, <<"m","a","p">>,
    <<"e","v","e","r","y">>, <<"s","o","m","e">>,
    <<"r","e","d","u","c","e">>,
    <<"r","e","d","u","c","e","R","i","g","h","t">>,
    <<"t","o","L","o","c","a","l","e","S","t","r","i","n","g">>,
    <<"t","o","S","t","r","i","n","g">>,
    <<"t","o","R","e","v","e","r","s","e","d">>,
    <<"t","o","S","o","r","t","e","d">>,
    <<"t","o","S","p","l","i","c","e","d">>, <<"w","i","t","h">> }

\* the getters of ZodString.prototype that answer a boolean
\* (!!this._def.checks.find(..))
ZodStringFlags ==
  { <<"i","s","D","a","t","e","t","i","m","e">>, <<"i","s","D","a","t","e">>,
    <<"i","s","T","i","m","e">>, <<"i","s","D","u","r","a","t","i","o","n">>,
    <<"i","s","E","m","a","i","l">>, <<"i","s","U","R","L">>,
    <<"i","s","E","m","o","j","i">>, <<"i","s","U","U","I","D">>,
    <<"i","s","N","A","N","O","I","D">>, <<"i","s","C","U","I","D">>,
    <<"i","s","C","U","I","D","2">>, <<"i","s","U","L","I","D">>,
    <<"i","s","I","P">>, <<"i","s","C","I","D","R">>,
    <<"i","s","B","a","s","e","6","4">>,
    <<"i","s","B","a","s","e","6","4","u","r","l">> }

\* the schema of each key of a schema definition: title is
\* z.string().min(3), page is z.number()
KeySchemaClass(schema) == IF schema = "title" THEN "zodString" ELSE "zodNumber"

\* the keys of the shape of a ZodObject
ShapeKeys(schema) ==
  CASE schema = "title" -> { NTitle }
    [] schema = "page" -> { NPage }
    [] OTHER -> {}

PrototypeClasses ==
  { "objectProto", "zodTypeProto", "zodObjectProto", "zodStringProto",
    "zodNumberProto", "zodNeverProto", "arrayProto" }

\* the class of the prototype of an object of a class ("" for
\* Object.prototype, whose prototype is null)
ParentClass(cls) ==
  CASE cls = "objectProto" -> ""
    [] cls = "zodObject" -> "zodObjectProto"
    [] cls = "zodString" -> "zodStringProto"
    [] cls = "zodNumber" -> "zodNumberProto"
    [] cls = "zodNever" -> "zodNeverProto"
    [] cls \in { "zodObjectProto", "zodStringProto", "zodNumberProto",
                 "zodNeverProto" } -> "zodTypeProto"
    [] cls \in { "array", "keys" } -> "arrayProto"
    [] OTHER -> "objectProto"

\* Object.getPrototypeOf(value), which the accessor __proto__ answers
ProtoOf(value) ==
  IF ParentClass(value.cls) = "" THEN Val("null")
  ELSE Obj(ParentClass(value.cls), <<>>, "")

\* the own properties of an object of a class that are functions
OwnFunctions(cls) ==
  CASE cls = "objectProto" -> ObjectProtoFunctions
    [] cls = "zodTypeProto" -> ZodTypeMethods
    [] cls = "zodObjectProto" -> ZodObjectMethods
    [] cls = "zodStringProto" -> ZodStringMethods
    [] cls = "zodNumberProto" -> ZodNumberMethods
    [] cls = "zodNeverProto" -> { NConstructor, NUParse }
    [] cls = "arrayProto" -> ArrayMethods
    [] cls = "zodObject" -> ZodTypeOwnFunctions \cup { NNonstrict, NAugment }
    [] cls = "zodNumber" -> ZodTypeOwnFunctions \cup { NMin, NMax, NStep }
    [] cls \in { "zodString", "zodNever" } -> ZodTypeOwnFunctions
    [] cls = "defObject" -> { NShape }
    [] cls = "standard" -> { NValidate }
    [] OTHER -> {}

\* the own accessor properties of a prototype
OwnGetters(cls) ==
  CASE cls = "zodTypeProto" -> { NDescription }
    [] cls = "zodObjectProto" -> { NShape }
    [] cls = "zodStringProto" -> ZodStringFlags \cup { NMinLength, NMaxLength }
    [] cls = "zodNumberProto" -> { NMinValue, NMaxValue, NIsInt, NIsFinite }
    [] OTHER -> {}

\* what a getter of a schema answers for `this`.  Every one of them reads
\* this._def.<something>: on a prototype, which has no _def, it throws
GetterValue(this, segment) ==
  IF this.cls \in PrototypeClasses THEN Val("throws")
  ELSE IF segment = NDescription THEN Val("undefined")
  ELSE IF segment = NShape THEN Obj("shape", <<>>, this.of)
  ELSE IF segment = NMinLength THEN Val("number")
  ELSE IF segment \in { NMaxLength, NMinValue, NMaxValue } THEN Val("null")
  ELSE Val("boolean")

\* the own data properties of an object
OwnData(value, segment, cached) ==
  CASE value.cls = "node" ->
         IF value.at \in Groups /\ Append(value.at, segment) \in (Groups \cup Endpoints)
           THEN Obj("node", Append(value.at, segment), "")
         ELSE IF value.at \in Endpoints /\ segment \in DescriptorFields(value.at)
           THEN (CASE segment = NRpcType -> Val("string")
                   [] segment = NImpl -> Val("function")
                   [] OTHER -> Obj("zodObject", <<>>, Descriptors[value.at].zodSchema))
         ELSE Absent
    [] value.cls = "zodObject" ->
         (CASE segment = NDef -> Obj("defObject", <<>>, value.of)
            [] segment = NCached ->
                 IF value.of \in cached THEN Obj("cached", <<>>, value.of)
                 ELSE Val("null")
            [] segment = NStandard -> Obj("standard", <<>>, "")
            [] OTHER -> Absent)
    [] value.cls \in { "zodString", "zodNumber" } ->
         (CASE segment = NDef -> Obj("defKey", <<>>, value.of)
            [] segment = NStandard -> Obj("standard", <<>>, "")
            [] OTHER -> Absent)
    [] value.cls = "zodNever" ->
         (CASE segment = NDef -> Obj("defNever", <<>>, "")
            [] segment = NStandard -> Obj("standard", <<>>, "")
            [] OTHER -> Absent)
    [] value.cls = "standard" ->
         (CASE segment = NVersion -> Val("number")
            [] segment = NVendor -> Val("string")
            [] OTHER -> Absent)
    [] value.cls = "cached" ->
         (CASE segment = NShape -> Obj("shape", <<>>, value.of)
            [] segment = NKeys -> Obj("keys", <<>>, value.of)
            [] OTHER -> Absent)
    [] value.cls = "keys" ->
         (CASE segment = NLength -> Val("number")
            [] segment = <<"0">> -> Val("string")
            [] OTHER -> Absent)
    [] value.cls = "shape" ->
         IF segment \in ShapeKeys(value.of)
           THEN Obj(KeySchemaClass(value.of), <<>>, value.of)
           ELSE Absent
    [] value.cls = "defObject" ->
         (CASE segment \in { NUnknownKeys, NTypeName } -> Val("string")
            [] segment = NCatchall -> Obj("zodNever", <<>>, "")
            [] OTHER -> Absent)
    [] value.cls = "defKey" ->
         (CASE segment = NTypeName -> Val("string")
            [] segment = NCoerce -> Val("boolean")
            [] segment = NChecks -> Obj("array", <<>>, value.of)
            [] OTHER -> Absent)
    [] value.cls = "defNever" ->
         IF segment = NTypeName THEN Val("string") ELSE Absent
    [] value.cls = "array" ->
         (CASE segment = NLength -> Val("number")
            [] segment = <<"0">> /\ value.of = "title" -> Obj("check", <<>>, "")
            [] OTHER -> Absent)
    [] value.cls = "arrayProto" ->
         IF segment = NLength THEN Val("number") ELSE Absent
    [] value.cls = "check" ->
         (CASE segment = NKind -> Val("string")
            [] segment = NValue -> Val("number")
            [] OTHER -> Absent)
    [] OTHER -> Absent

\* the member found on the object of class cls or on its prototypes, read
\* with `this`
RECURSIVE InheritedMember(_, _, _)
InheritedMember(cls, segment, this) ==
  IF cls = "" THEN Absent
  ELSE IF segment \in OwnFunctions(cls) THEN Val("function")
  ELSE IF segment \in OwnGetters(cls) THEN GetterValue(this, segment)
  ELSE InheritedMember(ParentClass(cls), segment, this)

\* current[segment] for an object current; absent when !(segment in current)
MemberOf(value, segment, cached) ==
  IF segment = NProto THEN ProtoOf(value)
  ELSE IF OwnData(value, segment, cached).kind # "absent"
    THEN OwnData(value, segment, cached)
  ELSE InheritedMember(value.cls, segment, value)

\* the value at a path from the root; absent when the walk stops before
RECURSIVE ValueAt(_, _)
ValueAt(node, cached) ==
  IF node = RootNode THEN Obj("node", RootNode, "")
  ELSE LET parent == ValueAt(SubSeq(node, 1, Len(node) - 1), cached) IN
       IF parent.kind # "object" THEN Absent
       ELSE MemberOf(parent, node[Len(node)], cached)

\* what current[segment] is for the object at a path
Member(node, segment, cached) ==
  IF ValueAt(node, cached).kind # "object" THEN "absent"
  ELSE MemberOf(ValueAt(node, cached), segment, cached).kind

\* what the value at a path from the root is
ValueKind(node, cached) == ValueAt(node, cached).kind

\* current && typeof current === "object"
IsObject(node, cached) == ValueKind(node, cached) = "object"

\* segment in current, for an object current
HasProperty(node, segment, cached) == Member(node, segment, cached) # "absent"

(***************************************************************************)
(* Middleware.  A middleware is user code; the model gives it one of a     *)
(* fixed set of behaviours towards next().                                 *)
(***************************************************************************)
MwBehaviours == { "pass", "short", "drop", "twice", "throw", "catch", "setctx" }

\* what a middleware does when it is invoked: call next(), return a value
\* of its own without calling next(), or throw
MwOnEnter(beh) ==
  CASE beh = "short" -> "return"
    [] beh = "throw" -> "throw"
    [] OTHER -> "next"

NoRet == [kind |-> "none", val |-> ""]
Value(v) == [kind |-> "value", val |-> v]
Failure(e) == [kind |-> "error", val |-> e]

\* what a middleware does when the next() it awaits settles with r; f is its
\* frame (f.nexts counts the next() calls it has made)
\*   pass, setctx: return await next()
\*   drop:         await next(); (no return)
\*   twice:        await next(); return await next()
\*   catch:        try { return await next() } catch { return fallback }
MwOnSettle(beh, f, r) ==
  IF r.kind = "error"
    THEN IF beh = "catch" THEN [act |-> "return", c |-> Value("recovered")]
                          ELSE [act |-> "throw", c |-> r]
    ELSE IF beh = "twice" /\ f.nexts = 1 THEN [act |-> "next", c |-> NoRet]
         ELSE IF beh = "drop" THEN [act |-> "return", c |-> Value("undefined")]
         ELSE [act |-> "return", c |-> r]

(***************************************************************************)
(* Values on the wire.                                                     *)
(***************************************************************************)
Str(v) == [ty |-> "str", v |-> v]
Num(v) == [ty |-> "num", v |-> v]

EmptyArgs == <<>>

\* argument records used as inputs
ArgsSamples ==
  { EmptyArgs,
    "title" :> Str("Hi"),
    "title" :> Str("Hello"),
    "page" :> Num("2") }

\* number of characters of the string values used
StrLen(v) == CASE v = "Hi" -> 2 [] v = "Hello" -> 5 [] v = "2" -> 1 [] OTHER -> 0

\* zodSchema.parse(args): the endpoint schemas of the API definition
\*   title: z.object({ title: z.string().min(3) })
\*   page:  z.object({ page: z.number() })
SchemaAccepts(schema, args) ==
  CASE schema = "title" ->
         /\ "title" \in DOMAIN args
         /\ args["title"].ty = "str"
         /\ StrLen(args["title"].v) >= 3
    [] schema = "page" ->
         /\ "page" \in DOMAIN args
         /\ args["page"].ty = "num"
    [] OTHER -> TRUE

\* z.object strips the keys the schema does not name
SchemaOutput(schema, args) ==
  CASE schema = "title" -> [k \in DOMAIN args \cap {"title"} |-> args[k]]
    [] schema = "page" -> [k \in DOMAIN args \cap {"page"} |-> args[k]]
    [] OTHER -> args

(***************************************************************************)
(* Requests.  A header value is modelled by the media types that occur in  *)
(* it (String.prototype.includes is all the code asks of it); an absent    *)
(* header and one naming no known media type are both the empty set.       *)
(***************************************************************************)
Methods == { "GET", "POST", "PUT" }

HeaderAbsent == {}
ContentTypeValues ==
  { HeaderAbsent, {"text/plain"}, {"application/json"},
    {"application/msgpack"}, {"multipart/form-data"} }
AcceptValues == { HeaderAbsent, {"application/json"}, {"application/msgpack"} }
Unread == {"(unread)"}

Includes(header, needle) == needle \in header

\* request bodies: enc is how the bytes were produced, val what was encoded.
\* A form is one whose args blob decodes (or that has none); the three
\* other forms carry an args blob of type application/json that is no JSON,
\* one of type application/msgpack that does not unpack, and one of type
\* text/plain.  Reading an unreadable body rejects (a stream that fails).
Body(enc, val) == [enc |-> enc, val |-> val]
NoBody == Body("empty", EmptyArgs)
UnreadBody == Body("(unread)", EmptyArgs)
FormsWithBadBlob == { "formJsonBlobInvalid", "formMsgpackBlobInvalid",
                      "formBlobUnsupported" }
Bodies ==
  { NoBody, Body("garbage", EmptyArgs),
    Body("msgpack", "title" :> Str("Hi")),
    Body("msgpack", "title" :> Str("Hello")),
    Body("json", "title" :> Str("Hello")),
    Body("form", "title" :> Str("Hello")),
    Body("unreadable", EmptyArgs) }
  \cup { Body(enc, EmptyArgs) : enc \in FormsWithBadBlob }

\* the args search parameter of a query URL: absent, base64url(pack(args)),
\* or text that does not decode
ArgsParams ==
  { Body("absent", EmptyArgs), Body("garbage", EmptyArgs) }
  \cup { Body("b64msgpack", a) : a \in ArgsSamples \ {EmptyArgs} }

\* the path strings requests carry: the slash-joined property names, the
\* URL tails the client produces, and paths that name no endpoint
ClientPathString(path) == Join(MapKebab(path), ".")
SlashPath(path) == Join(path, "/")
RequestPaths ==
  { SlashPath(p) : p \in Endpoints }
  \cup { ClientPathString(p) : p \in Endpoints }
  \cup { <<>>, NPosts, NNope,
          SlashPath(<<NPosts, NCreate, NImpl>>),
          SlashPath(<<NPosts, NCreate, NZodSchema>>),
          SlashPath(<<NPosts, NCreate, NZodSchema, NShape>>),
          SlashPath(<<NPosts, NCreate, NZodSchema, NCached>>),
          SlashPath(<<NPosts, NCreate, NZodSchema, NCached, NKeys>>),
          SlashPath(<<NPosts, NCreate, NZodSchema, NDescription>>),
          SlashPath(<<NPosts, NCreate, NZodSchema, NDef>>),
          SlashPath(<<NPosts, NCreate, NZodSchema, NStandard>>),
          SlashPath(<<NPosts, NCreate, NZodSchema, NShape, NTitle, NProto,
                      NMinLength>>),
          SlashPath(<<NProto, NProto>>),
          NProto, NToString }


\* the search parameters of a get URL, in order: pairs of plain strings
Pair(k, v) == [k |-> k, v |-> v]
Searches ==
  { <<>>,
    <<Pair("id", "42")>>,
    <<Pair("id", "1"), Pair("id", "2")>> }

(***************************************************************************)
(* State.                                                                  *)
(***************************************************************************)
VARIABLES
  \* --- server ---
  spc,         \* "setup", "idle", "read", "run", "done"
  mwAttached,  \* middleware registry: node -> list attached (target[MIDDLEWARE])
  attachLog,   \* node -> the middleware the .on(..) calls named it for, in call order
  attachCount, \* middleware entries pushed onto target[MIDDLEWARE] lists so far
  zodCached,   \* the endpoint schemas that have parsed (their _cached is filled)
  req,         \* the request being handled, as far as the handler has read it
  sctx,        \* the ServerContext of the request
  resp,        \* the Response the handler returned
  implRuns,    \* times the endpoint implementation was invoked for the request
  implArgs,    \* the args the implementation was last invoked with
  mwRuns,      \* middleware invocations for the request
  ctxCreated,  \* times the context factory was invoked for the request
  zodRejects,  \* times the endpoint schema rejected the arguments of the request
  bodyRead,    \* whether the request body has been read
  \* --- pipeline executor (one run) ---
  chain,       \* the stages handed to pipeline(): middleware, then the terminal
  stack,       \* the execute() frames awaiting, innermost last
  ret,         \* the settlement being delivered to the innermost frame
  trace,       \* stages entered and left, in order
  nextCounts,  \* next() calls made by each finished middleware invocation
  shortCut,    \* some middleware returned without having called next()
  relayed,     \* every finished middleware called next() once and settled as it did
  dropped,     \* some middleware awaited a next() that resolved and returned nothing
  \* --- client ---
  cpc,         \* "idle", "run", "net", "body", "lost", "settled"
  mwMap,       \* middlewareMap of createClient: key -> list of middleware
  assignLog,   \* every cfg assignment made so far, in order
  call,        \* the call in progress: path, rpcType, variant, options
  cctx,        \* the ClientContext of the call
  signal,      \* the call's abortSignal: aborted, and when it was aborted
  net,         \* the transport request of the call
  outcome,     \* how the promise of the call settled
  \* --- one request on the wire: built by the client, parsed by the server ---
  wpc,         \* "idle", "keys", "built", "parsed"
  wkeys,       \* a cfg assignment and a call path, with the keys they yield
  wcall,       \* the call whose request is on the wire: rpcType and args
  wreq,        \* the request call() built
  wsrv,        \* what the server parsed from it
  \* --- one ServerContext and the calls user code makes on it ---
  tctx,        \* the context: made, _status, _cache
  tlast,       \* the last write of each kind made through it
  \* --- two requests of one handler in flight together ---
  slots,       \* request -> how far it is, its context, its response
  heap         \* the objects the requests made: contexts, Headers, Maps

srvVars == <<spc, mwAttached, attachLog, attachCount, zodCached, req, sctx, resp, implRuns, implArgs, mwRuns,
             ctxCreated, zodRejects, bodyRead>>
pipeVars == <<chain, stack, ret, trace, nextCounts, shortCut, relayed, dropped>>
cliVars == <<cpc, mwMap, assignLog, call, cctx, signal, net, outcome>>
wireVars == <<wpc, wkeys, wcall, wreq, wsrv>>
ctxVars == <<tctx, tlast>>
isoVars == <<slots, heap>>
vars == <<srvVars, pipeVars, cliVars, wireVars, ctxVars, isoVars>>

(***************************************************************************)
(* Middleware registry (server/middleware.ts).                             *)
(***************************************************************************)
AttachTargets == { RootNode, <<NPosts>>, <<NPosts, NCreate>> }

\* getMiddlewares(target): target[MIDDLEWARE] || []
getMiddlewares(attached, target) ==
  IF target \in DOMAIN attached THEN attached[target] ELSE <<>>

\* addMiddleware(target, middleware) for a single target: append
addMiddleware(attached, target, middlewares) ==
  [n \in DOMAIN attached \cup {target} |->
     IF n = target THEN getMiddlewares(attached, target) \o middlewares
                   ELSE attached[n]]

\* variant: an array of targets attaches to its first element only
addMiddlewareEachFirstOnly(attached, targets, middlewares) ==
  addMiddleware(attached, Head(targets), middlewares)

\* addMiddleware(target, middleware) for an array of targets:
\* target.forEach((item) => addMiddleware(item, middleware))
RECURSIVE addMiddlewareEach(_, _, _)
addMiddlewareEach(attached, targets, middlewares) ==
  IF targets = <<>> THEN attached
  ELSE addMiddlewareEach(addMiddleware(attached, Head(targets), middlewares),
                         Tail(targets), middlewares)

\* how often a node is named by the targets of a call
Times(targets, node) ==
  Cardinality({ i \in 1..Len(targets) : targets[i] = node })

\* a list, n times over
RECURSIVE Repeat(_, _)
Repeat(s, n) == IF n = 0 THEN <<>> ELSE s \o Repeat(s, n - 1)

\* the targets of one .on(..) call: a node, or an array of two nodes
AttachTargetLists ==
  { <<t>> : t \in AttachTargets }
    \cup { <<t1, t2>> : t1 \in AttachTargets, t2 \in AttachTargets }

\* the middleware of one call: a function, or an array of two functions
AttachMiddlewareLists ==
  { <<b>> : b \in MwBehaviours }
    \cup { <<b1, b2>> : b1 \in MwBehaviours, b2 \in MwBehaviours }

(***************************************************************************)
(* Route lookup (findRpcMethodDescriptor).                                 *)
(***************************************************************************)
NotFound == [found |-> FALSE, node |-> RootNode, middlewares |-> <<>>,
             threw |-> FALSE]

\* getMiddlewares(current) reads current[MIDDLEWARE]: a TypeError when
\* current is null or undefined
LookupThrew == [found |-> FALSE, node |-> RootNode, middlewares |-> <<>>,
                threw |-> TRUE]

\* the loop of findRpcMethodDescriptor from segment i on.  Reading
\* current[segment] can throw (a getter), and getMiddlewares(current) throws
\* when the value read is null or undefined
RECURSIVE FindFrom(_, _, _, _, _, _)
FindFrom(pathSegments, i, current, middlewares, attached, cached) ==
  IF i > Len(pathSegments) THEN NotFound
  ELSE IF IsObject(current, cached) /\ HasProperty(current, pathSegments[i], cached)
    THEN LET cur == Append(current, pathSegments[i])
             mws == middlewares \o getMiddlewares(attached, cur)
         IN IF ValueKind(cur, cached) \in { "throws", "null", "undefined" }
              THEN LookupThrew
            ELSE IF i = Len(pathSegments)
              THEN IF IsObject(cur, cached) /\ HasProperty(cur, NRpcType, cached)
                     THEN [found |-> TRUE, node |-> cur, middlewares |-> mws,
                           threw |-> FALSE]
                     ELSE NotFound
              ELSE FindFrom(pathSegments, i + 1, cur, mws, attached, cached)
    ELSE NotFound

findRpcMethodDescriptor(pathSegments, attached, cached) ==
  FindFrom(pathSegments, 1, RootNode, getMiddlewares(attached, RootNode),
           attached, cached)

(***************************************************************************)
(* Argument parsing.                                                       *)
(***************************************************************************)
Parsed(args) == [ok |-> TRUE, args |-> args, status |-> 0, msg |-> ""]
ParseFailed(status, msg) ==
  [ok |-> FALSE, args |-> EmptyArgs, status |-> status, msg |-> msg]

\* variant: the first value of a repeated key is kept
parseGetFirstWins(search) ==
  LET keys == { search[i].k : i \in 1..Len(search) }
      first(k) == CHOOSE i \in 1..Len(search) :
                    /\ search[i].k = k
                    /\ \A j \in 1..Len(search) : search[j].k = k => j >= i
  IN Parsed([k \in keys |-> Str(search[first(k)].v)])

\* parseGet: every search parameter as a plain string, a later one
\* overwriting an earlier one of the same key
parseGet(search) ==
  LET keys == { search[i].k : i \in 1..Len(search) }
      last(k) == CHOOSE i \in 1..Len(search) :
                   /\ search[i].k = k
                   /\ \A j \in 1..Len(search) : search[j].k = k => j <= i
  IN Parsed([k \in keys |-> Str(search[last(k)].v)])

\* variant: an args parameter that does not unpack is taken for no arguments
parseQueryIgnoringFailure(argsParam) ==
  CASE argsParam.enc = "b64msgpack" -> Parsed(argsParam.val)
    [] OTHER -> Parsed(EmptyArgs)

\* parseQuery: the args parameter, base64url-decoded and unpacked
parseQuery(argsParam) ==
  CASE argsParam.enc = "absent" -> Parsed(EmptyArgs)
    [] argsParam.enc = "b64msgpack" -> Parsed(argsParam.val)
    [] OTHER -> ParseFailed(400, "Invalid msgpackr body")

\* parseCommandMsgpackr: an empty body is {}, else packr.unpack; the try
\* block holds the read of the body too, so a read that rejects is a
\* ParseError like bytes that do not unpack
parseCommandMsgpackr(body) ==
  CASE body.enc = "empty" -> Parsed(EmptyArgs)
    [] body.enc = "msgpack" -> Parsed(body.val)
    [] OTHER -> ParseFailed(400, "Invalid msgpackr body")

\* parseCommandJson: an empty body is {}, else JSON.parse; the read of the
\* body is inside the try block here too
parseCommandJson(body) ==
  CASE body.enc = "empty" -> Parsed(EmptyArgs)
    [] body.enc = "json" -> Parsed(body.val)
    [] OTHER -> ParseFailed(400, "Invalid JSON body")

\* parseCommandMultipartFormData: the args blob is decoded by its type, a
\* ParseError when it does not decode or has another type;
\* request.formData() rejects with a TypeError on a body that is no form
\* data, and the handler answers 500
parseCommandMultipartFormData(body) ==
  CASE body.enc = "form" -> Parsed(body.val)
    [] body.enc = "formJsonBlobInvalid" ->
         ParseFailed(400, "Invalid JSON in args blob")
    [] body.enc = "formMsgpackBlobInvalid" ->
         ParseFailed(400, "Invalid msgpack in args blob")
    [] body.enc = "formBlobUnsupported" ->
         ParseFailed(400, "Unsupported args type: text/plain")
    [] OTHER -> ParseFailed(500, "Internal server error")

\* the switch on rpcType and Content-Type of the handler
ParseArgs(rpcType, ctype, body, argsParam, search) ==
  CASE rpcType = "get" -> parseGet(search)
    [] rpcType = "query" -> parseQuery(argsParam)
    [] OTHER ->
         IF Includes(ctype, "multipart/form-data")
           THEN parseCommandMultipartFormData(body)
         ELSE IF Includes(ctype, "application/json")
           THEN parseCommandJson(body)
         ELSE parseCommandMsgpackr(body)

(***************************************************************************)
(* Responses.  Header names are stored as the Headers class stores them,   *)
(* in lower case.                                                          *)
(***************************************************************************)
\* the header names used, as written and as stored; a name that is not
\* listed is one already in lower case
HeaderSpellings ==
  << <<"X-Tango-Execution-Time", "x-tango-execution-time">>,
     <<"X-Tango-Validation-Error", "x-tango-validation-error">>,
     <<"Content-Type", "content-type">>, <<"CONTENT-TYPE", "content-type">>,
     <<"Cache-Control", "cache-control">>,
     <<"Accept", "accept">>, <<"ACCEPT", "accept">>,
     <<"X-Custom", "x-custom">>, <<"X-CUSTOM", "x-custom">>,
     <<"X-Custom-Header", "x-custom-header">>,
     <<"Authorization", "authorization">>,
     <<"X-Request-Id", "x-request-id">>, <<"X-Request-ID", "x-request-id">> >>

HeaderName(n) ==
  IF \E i \in 1..Len(HeaderSpellings) : HeaderSpellings[i][1] = n
    THEN HeaderSpellings[CHOOSE i \in 1..Len(HeaderSpellings) :
                           HeaderSpellings[i][1] = n][2]
    ELSE n

NoHeaders == <<>>
HeadersSet(h, name, value) ==
  [x \in DOMAIN h \cup {HeaderName(name)} |->
     IF x = HeaderName(name) THEN value ELSE h[x]]
HeadersHas(h, name) == HeaderName(name) \in DOMAIN h

NoResponse == [status |-> 0, headers |-> NoHeaders, body |-> [kind |-> "none", val |-> ""]]

\* the promise of the handler rejects: there is no Response
HandlerRejects(error) ==
  [status |-> 0, headers |-> NoHeaders, body |-> [kind |-> "rejected", val |-> error]]

\* new Response(text, {status}): a string body brings its own Content-Type
TextResponse(status, text) ==
  [status |-> status,
   headers |-> HeadersSet(NoHeaders, "Content-Type", "text/plain;charset=UTF-8"),
   body |-> [kind |-> "text", val |-> text]]

\* statuses for which the Response constructor refuses a body
NullBodyStatuses == { 101, 103, 204, 205, 304 }

NoContext == [made |-> FALSE, args |-> EmptyArgs, status |-> 200, cache |-> 0,
              headers |-> NoHeaders]

\* new ServerContext(args, event)
NewServerContext(args) ==
  [made |-> TRUE, args |-> args, status |-> 200, cache |-> 0, headers |-> NoHeaders]

\* ctx.args.set(key, value)
ArgsSet(args, key, value) ==
  [k \in DOMAIN args \cup {key} |-> IF k = key THEN value ELSE args[k]]

\* ctx.getArgs(): Object.fromEntries(this.args)
getArgs(ctx) == ctx.args

\* variant: the implementation is handed the raw args
TerminalArgsRaw(zodSchema, args) == args

\* let args = ctx.getArgs(); if (zodSchema) args = zodSchema.parse(args)
TerminalArgs(zodSchema, args) ==
  IF zodSchema # "none" THEN SchemaOutput(zodSchema, args) ELSE args

\* ctx.cache.set(seconds): Math.max(0, Math.floor(seconds)), for integers
CacheSet(ctx, seconds) == [ctx EXCEPT !.cache = IF seconds > 0 THEN seconds ELSE 0]

\* variant: Cache-Control is written whatever the method
MakeResponseHeadersAnyMethod(ctx, method, accept) ==
  LET prefersJson == Includes(accept, "application/json")
      h1 == HeadersSet(ctx.headers, "X-Tango-Execution-Time", "elapsed")
      h2 == HeadersSet(h1, "Content-Type",
              IF prefersJson THEN "application/json" ELSE "application/msgpack")
  IN IF ctx.cache # 0
       THEN HeadersSet(h2, "Cache-Control", "public, max-age=" \o ToString(ctx.cache))
       ELSE h2

\* the headers makeResponse leaves on ctx.headers.response
MakeResponseHeaders(ctx, method, accept) ==
  LET prefersJson == Includes(accept, "application/json")
      h1 == HeadersSet(ctx.headers, "X-Tango-Execution-Time", "elapsed")
      h2 == HeadersSet(h1, "Content-Type",
              IF prefersJson THEN "application/json" ELSE "application/msgpack")
  IN IF method = "GET" /\ ctx.cache # 0
       THEN HeadersSet(h2, "Cache-Control", "public, max-age=" \o ToString(ctx.cache))
       ELSE h2

\* variant: the body is packed whatever the Accept header says
makeResponsePackedBody(result, ctx, method, accept) ==
  [threw |-> \/ ctx.status < 200 \/ ctx.status > 599
             \/ ctx.status \in NullBodyStatuses,
   resp |-> [status |-> ctx.status,
             headers |-> MakeResponseHeaders(ctx, method, accept),
             body |-> [kind |-> "msgpack", val |-> result]]]

\* makeResponse(result, ctx): threw is TRUE when the Response constructor
\* rejects the status (RangeError outside 200..599, TypeError for a body
\* with a null-body status)
makeResponse(result, ctx, method, accept) ==
  LET prefersJson == Includes(accept, "application/json")
      \* JSON.stringify(undefined) is undefined: the Response has no body
      nullBody == prefersJson /\ result = "undefined"
      body == IF nullBody THEN [kind |-> "none", val |-> ""]
              ELSE [kind |-> IF prefersJson THEN "json" ELSE "msgpack", val |-> result]
  IN [threw |-> \/ ctx.status < 200 \/ ctx.status > 599
                \/ (ctx.status \in NullBodyStatuses /\ ~nullBody),
      resp |-> [status |-> ctx.status,
                headers |-> MakeResponseHeaders(ctx, method, accept),
                body |-> body]]

(***************************************************************************)
(* The pipeline executor (util/pipeline.ts).  execute(state, middlewares,  *)
(* index) is a frame; the frames form a stack because each stage awaits    *)
(* the next() it called.                                                   *)
(***************************************************************************)
Frame(i) == [idx |-> i, phase |-> "enter", nexts |-> 0, beh |-> "unset"]
Top(s) == s[Len(s)]
Pop(s) == SubSeq(s, 1, Len(s) - 1)

\* variant: the last stage is a middleware like the others and calls next()
IsTerminalNever(f) == FALSE

\* the last stage is the one createHandler or createClient appended
IsTerminal(f) == f.idx = Len(chain)

Enter(i) == [ev |-> "enter", idx |-> i]
Leave(i) == [ev |-> "leave", idx |-> i]

\* pipeline(state, ...middlewares): execute(state, middlewares, 0)
PipelineStart(stages) ==
  /\ chain' = stages
  /\ stack' = <<Frame(1)>>
  /\ ret' = NoRet
  /\ trace' = <<Enter(1)>>
  /\ nextCounts' = {}
  /\ shortCut' = FALSE
  /\ relayed' = TRUE
  /\ dropped' = FALSE

PipelineIdle ==
  /\ chain' = <<>>
  /\ stack' = <<>>
  /\ ret' = NoRet
  /\ trace' = <<>>
  /\ nextCounts' = {}
  /\ shortCut' = FALSE
  /\ relayed' = TRUE
  /\ dropped' = FALSE

\* variant: next() skips a stage
NextIndexSkip(index) == index + 2

\* the index next() hands to execute
NextIndex(index) == index + 1

\* the innermost stage calls next(): execute(state, middlewares, index + 1),
\* which rejects at once when there is no stage at that index
CallNext(beh) ==
  LET f == Top(stack)
      g == [f EXCEPT !.phase = "await", !.nexts = @ + 1, !.beh = beh]
      waiting == [stack EXCEPT ![Len(stack)] = g]
  IN /\ IF NextIndex(f.idx) > Len(chain)
          THEN /\ stack' = waiting
               /\ ret' = Failure("PipelineExhausted")
               /\ trace' = trace
          ELSE /\ stack' = Append(waiting, Frame(NextIndex(f.idx)))
               /\ ret' = NoRet
               /\ trace' = Append(trace, Enter(NextIndex(f.idx)))
     /\ UNCHANGED <<chain, nextCounts, shortCut, relayed, dropped>>

\* variant: execute catches what its stage throws and returns nothing
ExecuteReturnSwallowing(c) == IF c.kind = "error" THEN Value("undefined") ELSE c

\* variant: execute awaits the stage and returns nothing
ExecuteReturnNothing(c) == IF c.kind = "value" THEN Value("undefined") ELSE c

\* return await middleware(state, next): execute settles as its stage did
ExecuteReturn(c) == c

\* the innermost stage settles with c (returns a value or throws)
Complete(c) ==
  LET f == Top(stack) IN
  /\ stack' = Pop(stack)
  /\ ret' = ExecuteReturn(c)
  /\ trace' = Append(trace, Leave(f.idx))
  /\ nextCounts' = IF IsTerminal(f) THEN nextCounts ELSE nextCounts \cup {f.nexts}
  /\ shortCut' = (shortCut \/ (~IsTerminal(f) /\ c.kind = "value" /\ f.nexts = 0))
  /\ relayed' = (relayed /\ (IsTerminal(f) \/ (f.nexts = 1 /\ c = ret)))
  /\ dropped' = (dropped \/ (~IsTerminal(f) /\ f.beh = "drop" /\ f.nexts = 1
                               /\ ret.kind = "value" /\ c = Value("undefined")))
  /\ UNCHANGED chain

(***************************************************************************)
(* The server handler (createHandler).                                     *)
(***************************************************************************)
acceptedMethods == { "GET", "POST" }

\* variant: POST is let through to query endpoints
acceptedRequestsLax ==
  { <<"GET", "query">>, <<"GET", "get">>, <<"POST", "command">>, <<"POST", "query">> }

acceptedRequests == { <<"GET", "query">>, <<"GET", "get">>, <<"POST", "command">> }

Request(m, p, in) ==
  [method |-> m, path |-> p, ctype |-> in.ctype, body |-> in.body,
   argsParam |-> in.argsParam, search |-> in.search, accept |-> Unread]
NothingRead ==
  [ctype |-> Unread, body |-> UnreadBody, argsParam |-> UnreadBody, search |-> <<>>]
NoRequest == Request("", <<>>, NothingRead)

\* what the handler reads of a request for an endpoint of the given rpcType
InputsFor(rpcType) ==
  CASE rpcType = "get" ->
         { [NothingRead EXCEPT !.search = s] : s \in Searches }
    [] rpcType = "query" ->
         { [NothingRead EXCEPT !.argsParam = a] : a \in ArgsParams }
    [] OTHER ->
         { [NothingRead EXCEPT !.ctype = c, !.body = b] :
             c \in ContentTypeValues, b \in Bodies }

\* the checks of the handler before it parses: 0 when they all pass, -1
\* when the route lookup throws (the handler rejects)
GateStatus(m, p, attached, cached) ==
  IF m \notin acceptedMethods THEN 405
  ELSE IF p = <<>> THEN 404
  ELSE LET found == findRpcMethodDescriptor(Split(p, "/"), attached, cached) IN
    IF found.threw THEN -1
    ELSE IF ~found.found THEN 404
    ELSE IF <<m, Descriptors[found.node].rpcType>> \notin acceptedRequests THEN 405
    ELSE 0

\* `RPC type ${rpcType} not allowed for ${request.method} requests`
RpcTypeNotAllowed(rpcType, m) ==
  "RPC type " \o rpcType \o " not allowed for " \o m \o " requests"

GateMessage(m, p, attached, cached) ==
  IF m \notin acceptedMethods THEN "Method not allowed"
  ELSE IF GateStatus(m, p, attached, cached) = 404 THEN "RPC method not found"
  ELSE IF GateStatus(m, p, attached, cached) = -1 THEN "TypeError"
  ELSE RpcTypeNotAllowed(
         Descriptors[findRpcMethodDescriptor(Split(p, "/"), attached,
                                             cached).node].rpcType, m)

ServerInit ==
  /\ spc = "setup"
  /\ mwAttached = <<>>
  /\ attachLog = [n \in AttachTargets |-> <<>>]
  /\ attachCount = 0
  /\ zodCached = {}
  /\ req = NoRequest
  /\ sctx = NoContext
  /\ resp = NoResponse
  /\ implRuns = 0
  /\ implArgs = EmptyArgs
  /\ mwRuns = 0
  /\ ctxCreated = 0
  /\ zodRejects = 0
  /\ bodyRead = FALSE

PipeInit ==
  /\ chain = <<>>
  /\ stack = <<>>
  /\ ret = NoRet
  /\ trace = <<>>
  /\ nextCounts = {}
  /\ shortCut = FALSE
  /\ relayed = TRUE
  /\ dropped = FALSE

\* tango.middleware(mw).on(target): addMiddleware, with one target or an
\* array of targets, and one middleware or an array of middleware, the
\* middleware being one of middlewareLists; it can be called at any moment,
\* while a request is being handled included
AttachOf(middlewareLists) ==
  /\ UNCHANGED <<cliVars, wireVars, ctxVars, isoVars>>
  /\ attachCount < MaxAttach
  /\ \E targets \in AttachTargetLists, middlewares \in middlewareLists :
       /\ attachCount + Len(targets) * Len(middlewares) <= MaxAttach
       /\ mwAttached' = addMiddlewareEach(mwAttached, targets, middlewares)
       /\ attachLog' = [n \in AttachTargets |->
                           attachLog[n] \o Repeat(middlewares, Times(targets, n))]
       /\ attachCount' = attachCount + Len(targets) * Len(middlewares)
  /\ UNCHANGED <<spc, zodCached, req, sctx, resp, implRuns, implArgs, mwRuns,
                 ctxCreated, zodRejects, bodyRead>>
  /\ UNCHANGED pipeVars

\* the application attaches middleware of any behaviour
Attach == AttachOf(AttachMiddlewareLists)

\* createHandler(apiDefinition)
CreateHandler ==
  /\ UNCHANGED <<cliVars, wireVars, ctxVars, isoVars>>
  /\ spc = "setup"
  /\ spc' = "idle"
  /\ UNCHANGED <<mwAttached, attachLog, attachCount, zodCached, req, sctx, resp, implRuns, implArgs, mwRuns,
                 ctxCreated, zodRejects, bodyRead>>
  /\ UNCHANGED pipeVars

\* the pipeline is not started yet: the stages the lookup returned are kept
PipelineHeld(stages) ==
  /\ chain' = stages
  /\ stack' = <<>>
  /\ ret' = NoRet
  /\ trace' = <<>>
  /\ nextCounts' = {}
  /\ shortCut' = FALSE
  /\ relayed' = TRUE
  /\ dropped' = FALSE

\* handler(event) up to its first await or to the pipeline call: gates and
\* route lookup; for a query or a get endpoint the parsing of the URL and
\* the context construction follow at once; for a command endpoint the
\* handler awaits the body
HandlerStart ==
  /\ UNCHANGED <<cliVars, wireVars, ctxVars, isoVars>>
  /\ spc = "idle"
  /\ \E m \in Methods, p \in RequestPaths :
       IF GateStatus(m, p, mwAttached, zodCached) # 0
         THEN /\ req' = Request(m, p, NothingRead)
              /\ resp' = IF GateStatus(m, p, mwAttached, zodCached) = -1
                           THEN HandlerRejects(GateMessage(m, p, mwAttached, zodCached))
                           ELSE TextResponse(GateStatus(m, p, mwAttached, zodCached),
                                             GateMessage(m, p, mwAttached, zodCached))
              /\ spc' = "done"
              /\ UNCHANGED <<sctx, ctxCreated, bodyRead>>
              /\ PipelineIdle
         ELSE LET found == findRpcMethodDescriptor(Split(p, "/"), mwAttached,
                                                   zodCached)
                  rpcType == Descriptors[found.node].rpcType
              IN \E in \in InputsFor(rpcType) :
                   LET parsed == ParseArgs(rpcType, in.ctype, in.body,
                                           in.argsParam, in.search)
                   IN /\ req' = Request(m, p, in)
                      /\ bodyRead' = (rpcType = "command")
                      /\ IF rpcType = "command"
                           THEN /\ resp' = NoResponse
                                /\ spc' = "read"
                                /\ UNCHANGED <<sctx, ctxCreated>>
                                /\ PipelineHeld(found.middlewares \o <<"terminal">>)
                         ELSE IF parsed.ok
                           THEN /\ sctx' = NewServerContext(parsed.args)
                                /\ ctxCreated' = 1
                                /\ resp' = NoResponse
                                /\ spc' = "run"
                                /\ PipelineStart(found.middlewares \o <<"terminal">>)
                           ELSE /\ resp' = TextResponse(parsed.status, parsed.msg)
                                /\ spc' = "done"
                                /\ UNCHANGED <<sctx, ctxCreated>>
                                /\ PipelineIdle
  /\ implRuns' = 0
  /\ implArgs' = EmptyArgs
  /\ mwRuns' = 0
  /\ zodRejects' = 0
  /\ UNCHANGED <<mwAttached, attachLog, attachCount, zodCached>>

\* the body of a command request has been read (or its read failed): the
\* rest of parseCommand*, the context construction and the pipeline call
HandlerParsed ==
  /\ UNCHANGED <<cliVars, wireVars, ctxVars, isoVars>>
  /\ spc = "read"
  /\ LET parsed == ParseArgs("command", req.ctype, req.body, req.argsParam,
                             req.search)
     IN IF parsed.ok
          THEN /\ sctx' = NewServerContext(parsed.args)
               /\ ctxCreated' = 1
               /\ resp' = NoResponse
               /\ spc' = "run"
               /\ PipelineStart(chain)
          ELSE /\ resp' = TextResponse(parsed.status, parsed.msg)
               /\ spc' = "done"
               /\ UNCHANGED <<sctx, ctxCreated>>
               /\ PipelineIdle
  /\ UNCHANGED <<mwAttached, attachLog, attachCount, zodCached, req, implRuns, implArgs,
                 mwRuns, zodRejects, bodyRead>>

\* the lookup of every path a request can carry; the descriptor a path
\* leads to does not depend on what is attached, nor on the schemas that
\* have parsed (no descriptor lies below a schema)
RouteTable ==
  [p \in RequestPaths |-> findRpcMethodDescriptor(Split(p, "/"), <<>>, {})]

\* the route the request resolved to
ReqNode == RouteTable[req.path].node

\* a server middleware is invoked
SrvMiddlewareEnter ==
  /\ UNCHANGED <<cliVars, wireVars, ctxVars, isoVars>>
  /\ spc = "run" /\ stack # <<>>
  /\ Top(stack).phase = "enter" /\ ~IsTerminal(Top(stack))
  /\ LET beh == chain[Top(stack).idx] IN
       /\ sctx' = IF beh = "setctx"
                    THEN CacheSet([sctx EXCEPT
                                     !.status = 201,
                                     !.headers = HeadersSet(@, "x-custom", "1"),
                                     !.args = ArgsSet(ArgsSet(@, "title", Str("Hello")),
                                                      "extra", Str("x"))], 60)
                    ELSE sctx
       /\ CASE MwOnEnter(beh) = "return" ->
                 Complete(Value("mwValue"))
            [] MwOnEnter(beh) = "throw" ->
                 Complete(Failure("Error"))
            [] OTHER ->
                 CallNext(beh)
  /\ mwRuns' = mwRuns + 1
  /\ UNCHANGED <<spc, mwAttached, attachLog, attachCount, zodCached, req, resp, implRuns, implArgs, ctxCreated,
                 zodRejects, bodyRead>>


\* the next() a server middleware awaits has settled
SrvMiddlewareSettle ==
  /\ UNCHANGED <<cliVars, wireVars, ctxVars, isoVars>>
  /\ spc = "run" /\ stack # <<>>
  /\ Top(stack).phase = "await" /\ ret.kind # "none"
  /\ LET out == MwOnSettle(Top(stack).beh, Top(stack), ret) IN
       IF out.act = "next" THEN CallNext(Top(stack).beh) ELSE Complete(out.c)
  /\ UNCHANGED srvVars

\* what the endpoint implementation does when invoked (user code)
ImplBehaviours == { "ok", "throw", "throwZod" }

ImplOutcome(b) ==
  CASE b = "ok" -> Value("implResult")
    [] b = "throwZod" -> Failure("ZodError")
    [] OTHER -> Failure("Error")

\* the terminal stage createHandler appends: validate, then call the
\* implementation
SrvTerminal ==
  /\ UNCHANGED <<cliVars, wireVars, ctxVars, isoVars>>
  /\ spc = "run" /\ stack # <<>>
  /\ Top(stack).phase = "enter" /\ IsTerminal(Top(stack))
  /\ LET zodSchema == Descriptors[ReqNode].zodSchema IN
       IF zodSchema # "none" /\ ~SchemaAccepts(zodSchema, getArgs(sctx))
         THEN /\ Complete(Failure("ZodError"))
              /\ zodRejects' = zodRejects + 1
              /\ UNCHANGED <<implRuns, implArgs>>
         ELSE \E b \in ImplBehaviours :
                /\ Complete(ImplOutcome(b))
                /\ zodRejects' = zodRejects
                /\ implRuns' = implRuns + 1
                /\ implArgs' = TerminalArgs(zodSchema, getArgs(sctx))
  /\ zodCached' = IF Descriptors[ReqNode].zodSchema # "none"
                    THEN zodCached \cup { Descriptors[ReqNode].zodSchema }
                    ELSE zodCached
  /\ UNCHANGED <<spc, mwAttached, attachLog, attachCount, req, sctx, resp, mwRuns,
                 ctxCreated, bodyRead>>

\* variant: every failure of the pipeline is taken for a validation failure
IsZodErrorAny(e) == TRUE

\* e instanceof z.ZodError
IsZodError(e) == e = "ZodError"

\* variant: the catch block leaves the cache directive as it was
ValidationFailureContextKeepCache(ctx) ==
  [ctx EXCEPT !.headers = HeadersSet(@, "X-Tango-Validation-Error", "true"),
              !.status = 422]

\* the catch block on a ZodError: validation header, cache 0, status 422
ValidationFailureContext(ctx) ==
  [CacheSet([ctx EXCEPT !.headers =
               HeadersSet(@, "X-Tango-Validation-Error", "true")], 0)
     EXCEPT !.status = 422]

\* variant: the 500 is built with the context's response headers
FailureResponseWithContextHeaders(ctx) ==
  [status |-> 500,
   headers |-> HeadersSet(ctx.headers, "Content-Type", "text/plain;charset=UTF-8"),
   body |-> [kind |-> "text", val |-> "Internal server error"]]

\* the catch block on any other failure:
\* new Response(`Internal server error`, {status: 500})
FailureResponse(ctx) == TextResponse(500, "Internal server error")

\* the handler after the pipeline settled: makeResponse, or the catch block
HandlerRespond ==
  /\ UNCHANGED <<cliVars, wireVars, ctxVars, isoVars>>
  /\ spc = "run" /\ stack = <<>> /\ ret.kind # "none"
  /\ \E accept \in AcceptValues :
       /\ req' = [req EXCEPT !.accept = accept]
       /\ IF ret.kind = "value"
            THEN LET made == makeResponse(ret.val, sctx, req.method, accept) IN
                 /\ sctx' = [sctx EXCEPT !.headers = made.resp.headers]
                 /\ resp' = IF made.threw
                              THEN TextResponse(500, "Internal server error")
                              ELSE made.resp
            ELSE IF IsZodError(ret.val)
              THEN LET c == ValidationFailureContext(sctx)
                       made == makeResponse("issues", c, req.method, accept)
                   IN /\ sctx' = [c EXCEPT !.headers = made.resp.headers]
                      /\ resp' = made.resp
              ELSE /\ sctx' = sctx
                   /\ resp' = FailureResponse(sctx)
  /\ spc' = "done"
  /\ UNCHANGED <<mwAttached, attachLog, attachCount, zodCached, implRuns, implArgs, mwRuns, ctxCreated, zodRejects,
                 bodyRead>>
  /\ UNCHANGED pipeVars

\* the request is over; its context and response are dropped
HandlerReturn ==
  /\ UNCHANGED <<cliVars, wireVars, ctxVars, isoVars>>
  /\ spc = "done"
  /\ spc' = "idle"
  /\ req' = NoRequest
  /\ sctx' = NoContext
  /\ resp' = NoResponse
  /\ implRuns' = 0
  /\ implArgs' = EmptyArgs
  /\ mwRuns' = 0
  /\ ctxCreated' = 0
  /\ zodRejects' = 0
  /\ bodyRead' = FALSE
  /\ PipelineIdle
  /\ UNCHANGED <<mwAttached, attachLog, attachCount, zodCached>>

(***************************************************************************)
(* The client (createClient): the cfg setter proxy and its middlewareMap,  *)
(* the call proxy, the transport (call, fetchWithXhr).  A client           *)
(* middleware is user code: it is registered as an identity and takes one  *)
(* of the behaviours towards next() each time it is invoked.  Signals      *)
(* abort with their default reason.                                        *)
(***************************************************************************)
Dollar == <<"$">>

\* cfg assignments: the path of the setter proxy and the property assigned
CfgTargets ==
  { [path |-> <<>>, prop |-> Dollar],
    [path |-> <<>>, prop |-> NUsers],
    [path |-> <<NUsers>>, prop |-> Dollar],
    [path |-> <<NUsers>>, prop |-> NGetProfile] }

\* the calls made through the api proxy
ClientCalls ==
  { [path |-> <<NUsers, NGetProfile>>, rpcType |-> "query"],
    [path |-> <<NPosts, NCreate>>, rpcType |-> "command"] }

ClientMwBehaviours == { "pass", "short", "drop", "twice", "throw", "catch" }

\* a registered middleware; n is the number of the assignment, k its place
\* in the assigned value
Mw(n, k) == [id |-> 10 * n + k]
Transport == [id |-> 0]

\* the values assigned in the n-th assignment: one middleware or a list
AssignValues(n) ==
  { [isArray |-> FALSE, items |-> <<Mw(n, 1)>>],
    [isArray |-> TRUE, items |-> <<Mw(n, 1), Mw(n, 2)>>] }

\* Array.isArray(value) ? value : [value]
NewMiddlewares(value) == value.items

\* variant: $ is taken for the name of a child
SetterKeyPathDollarIsChild(path, prop) == Append(path, prop)

\* prop === "$" ? path : [...path, prop]
SetterKeyPath(path, prop) == IF prop = Dollar THEN path ELSE Append(path, prop)

\* keyPath.map(camelToKebabCase).join(".")
MiddlewareKey(keyPath) == Join(MapKebab(keyPath), ".")

\* middlewareMap.get(key) || []
MapGet(map, key) == IF key \in DOMAIN map THEN map[key] ELSE <<>>

\* the key of each assignment of the model
SetterKey ==
  [t \in CfgTargets |-> MiddlewareKey(SetterKeyPath(t.path, t.prop))]

\* variant: an assignment replaces the list stored at the key
SetterSetReplace(map, key, value) ==
  [k \in DOMAIN map \cup {key} |->
     IF k = key THEN NewMiddlewares(value) ELSE map[k]]

\* the set trap of the setter proxy, once the key is known:
\* middlewareMap.set(key, [...existing, ...newMiddlewares])
SetterSet(map, key, value) ==
  [k \in DOMAIN map \cup {key} |->
     IF k = key THEN MapGet(map, key) \o NewMiddlewares(value) ELSE map[k]]

\* the middleware of a call: the "" key, then every prefix of the path
RECURSIVE AssembleFrom(_, _, _)
AssembleFrom(map, path, i) ==
  IF i > Len(path) THEN <<>>
  ELSE MapGet(map, MiddlewareKey(SubSeq(path, 1, i)))
         \o AssembleFrom(map, path, i + 1)

\* variant: only the middleware of the "" key are collected
AssembleMiddlewaresGlobalOnly(map, path) == MapGet(map, <<>>)

AssembleMiddlewares(map, path) == MapGet(map, <<>>) \o AssembleFrom(map, path, 1)

\* responses the network delivers: status and kind of body
NetResponse(status, body) == [status |-> status, body |-> body]
NetResponses ==
  { NetResponse(200, "msgpack"), NetResponse(200, "empty"),
    NetResponse(204, "empty"), NetResponse(422, "msgpack"),
    NetResponse(500, "text"), NetResponse(500, "empty"),
    NetResponse(200, "text") }

\* response.ok
ResponseOk(status) == status >= 200 /\ status <= 299

\* call() after the response arrived: empty body, unpack, status
DecodeResponse(status, body) ==
  IF body = "empty"
    THEN IF status = 204 THEN Value("null")
         ELSE IF ~ResponseOk(status) THEN Failure("ServerError")
         ELSE Failure("UnexpectedEmptyResponse")
  ELSE IF body # "msgpack" THEN Failure("DecodeError")
  ELSE IF ~ResponseOk(status) THEN Failure("ServerErrorWithData")
  ELSE Value("data")

NoCall == [path |-> <<>>, rpcType |-> "", variant |-> "unread",
           onProgress |-> "unread", again |-> 0, logLen |-> 0]
NoClientContext == [made |-> FALSE, result |-> "unset", resultSets |-> 0, response |-> 0]
NewClientContext == [made |-> TRUE, result |-> "unset", resultSets |-> 0, response |-> 0]
NoSignal == [aborted |-> FALSE, at |-> "never"]
NoNet == [via |-> "none", sent |-> 0, listening |-> FALSE, status |-> 0,
          body |-> "none", used |-> {}]

ClientInit ==
  /\ cpc = "idle"
  /\ mwMap = <<>>
  /\ assignLog = <<>>
  /\ call = NoCall
  /\ cctx = NoClientContext
  /\ signal = NoSignal
  /\ net = NoNet
  /\ outcome = NoRet

\* how many middleware the assignments of the log registered
RECURSIVE Registered(_)
Registered(log) ==
  IF log = <<>> THEN 0 ELSE Len(Head(log).items) + Registered(Tail(log))

\* cfg.<path>.<prop> = value
CfgAssign ==
  /\ \E t \in CfgTargets, v \in AssignValues(Len(assignLog) + 1) :
       /\ Registered(assignLog) + Len(NewMiddlewares(v)) <= MaxAssign
       /\ mwMap' = SetterSet(mwMap, SetterKey[t], v)
       /\ assignLog' = Append(assignLog,
                              [key |-> SetterKey[t], items |-> NewMiddlewares(v),
                               path |-> t.path, prop |-> t.prop])
  /\ UNCHANGED <<cpc, call, cctx, signal, net, outcome>>
  /\ UNCHANGED pipeVars
  /\ UNCHANGED <<srvVars, wireVars, ctxVars, isoVars>>

\* api.<path>.$query(args, options) and its siblings, up to the pipeline call
CallStart ==
  /\ cpc = "idle"
  /\ \E c \in ClientCalls, a \in BOOLEAN :
       /\ call' = [path |-> c.path, rpcType |-> c.rpcType, variant |-> "unread",
                   onProgress |-> "unread", again |-> 0, logLen |-> Len(assignLog)]
       /\ signal' = IF a THEN [aborted |-> TRUE, at |-> "before"] ELSE NoSignal
       /\ PipelineStart(AssembleMiddlewares(mwMap, c.path) \o <<Transport>>)
  /\ cctx' = NewClientContext
  /\ net' = NoNet
  /\ outcome' = NoRet
  /\ cpc' = "run"
  /\ UNCHANGED <<mwMap, assignLog>>
  /\ UNCHANGED <<srvVars, wireVars, ctxVars, isoVars>>

\* a client middleware is invoked
CliMiddlewareEnter ==
  /\ cpc = "run" /\ stack # <<>>
  /\ Top(stack).phase = "enter" /\ ~IsTerminal(Top(stack))
  /\ \E beh \in ClientMwBehaviours :
       /\ beh = "twice" => call.again < MaxAgain
       /\ call' = IF beh = "twice" THEN [call EXCEPT !.again = @ + 1] ELSE call
       /\ CASE MwOnEnter(beh) = "return" ->
                 Complete(Value("mwValue"))
            [] MwOnEnter(beh) = "throw" ->
                 Complete(Failure("Error"))
            [] OTHER ->
                 CallNext(beh)
  /\ UNCHANGED <<cpc, mwMap, assignLog, cctx, signal, net, outcome>>
  /\ UNCHANGED <<srvVars, wireVars, ctxVars, isoVars>>

\* the next() a client middleware awaits has settled
CliMiddlewareSettle ==
  /\ cpc = "run" /\ stack # <<>>
  /\ Top(stack).phase = "await" /\ ret.kind # "none"
  /\ LET out == MwOnSettle(Top(stack).beh, Top(stack), ret) IN
       IF out.act = "next" THEN CallNext(Top(stack).beh) ELSE Complete(out.c)
  /\ UNCHANGED cliVars
  /\ UNCHANGED <<srvVars, wireVars, ctxVars, isoVars>>

\* variant: the signal is not handed to the transport
RejectsOnStartNever(sig) == FALSE

\* fetch and fetchWithXhr reject at once when the signal is already aborted
RejectsOnStart(sig) == sig.aborted

\* variant: only the abort event of the request removes the abort listener
ListenerAfterAbortOnly(listening, event) == listening /\ event # "abort"

\* the load, error and abort listeners of the XMLHttpRequest each begin with
\* signal?.removeEventListener("abort", abortHandler)
ListenerAfter(listening, event) == FALSE

\* variant: every request goes through fetch
TransportOfAlwaysFetch(hasProgress) == "fetch"

\* hasProgress ? await fetchWithXhr(...) : await fetch(...)
TransportOf(hasProgress) == IF hasProgress THEN "xhr" ELSE "fetch"

\* the transport stage: call(baseUrl, ctx) up to the request being sent
CliTransportSend ==
  /\ cpc = "run" /\ stack # <<>>
  /\ Top(stack).phase = "enter" /\ IsTerminal(Top(stack))
  /\ \E onProgress \in (IF call.onProgress = "unread" THEN {"defined", "undefined"}
                         ELSE {call.onProgress}) :
       LET hasProgress == onProgress = "defined"
           via == TransportOf(hasProgress) IN
       /\ call' = [call EXCEPT !.onProgress = onProgress]
       /\ IF RejectsOnStart(signal)
            THEN /\ Complete(Failure("AbortError"))
                 /\ net' = [net EXCEPT !.via = via, !.used = @ \cup {via}]
                 /\ cpc' = "run"
            ELSE /\ net' = [via |-> via, sent |-> net.sent + 1,
                            listening |-> hasProgress,
                            status |-> 0, body |-> "none",
                            used |-> net.used \cup {via}]
                 /\ cpc' = "net"
                 /\ UNCHANGED pipeVars
  /\ UNCHANGED <<mwMap, assignLog, cctx, signal, outcome>>
  /\ UNCHANGED <<srvVars, wireVars, ctxVars, isoVars>>

\* a null body status of the Fetch standard: new Response(body, {status})
\* throws a TypeError for it when body is not null
NullBodyStatus(status) == status \in {101, 103, 204, 205, 304}

\* the load listener of fetchWithXhr builds new Response(xhr.response, ...)
\* from the ArrayBuffer of the request, empty or not: for a status outside
\* 200..599 (a RangeError) and for a null body status (a TypeError) the
\* constructor throws in the listener, and resolve is never called
LoadListenerThrows(via, status) ==
  /\ via = "xhr"
  /\ (status < 200 \/ status > 599 \/ NullBodyStatus(status))

\* the request settles: a response arrives, or the network fails
NetSettle ==
  /\ cpc = "net"
  /\ \/ /\ Complete(Failure("NetworkError"))
        /\ net' = [net EXCEPT !.listening = ListenerAfter(@, "error")]
        /\ cctx' = cctx
        /\ cpc' = "run"
     \/ \E r \in NetResponses :
          /\ net' = [net EXCEPT !.listening = ListenerAfter(@, "load"),
                                !.status = r.status, !.body = r.body]
          /\ IF LoadListenerThrows(net.via, r.status)
               THEN /\ cctx' = cctx
                    /\ cpc' = "lost"
               ELSE /\ cctx' = [cctx EXCEPT !.response = r.status]
                    /\ cpc' = "body"
          /\ UNCHANGED pipeVars
  /\ UNCHANGED <<mwMap, assignLog, call, signal, outcome>>
  /\ UNCHANGED <<srvVars, wireVars, ctxVars, isoVars>>

\* response.arrayBuffer() resolved: decode, and the rest of the transport
\* stage (ctx.result = result; return result)
BodyRead ==
  /\ cpc = "body"
  /\ LET d == DecodeResponse(net.status, net.body) IN
       /\ Complete(d)
       /\ cctx' = IF d.kind = "value"
                    THEN [cctx EXCEPT !.result = d.val, !.resultSets = @ + 1]
                    ELSE cctx
  /\ cpc' = "run"
  /\ UNCHANGED <<mwMap, assignLog, call, signal, net, outcome>>
  /\ UNCHANGED <<srvVars, wireVars, ctxVars, isoVars>>

\* when, in the life of the call, the signal is being aborted
AbortMoment ==
  CASE cpc = "net" -> "inFlight"
    [] cpc = "body" -> IF net.via = "fetch" THEN "readingBody" ELSE "loaded"
    [] cpc = "lost" -> "stranded"
    [] OTHER -> IF net.sent = 0 /\ net.via = "none" THEN "before" ELSE "after"

\* what an abort can do to the body read of a fetch response: a read that
\* is pending is rejected with the AbortError (the Fetch standard) or, in a
\* runtime that has the body in memory already, resolves; when the abort
\* comes after fetch resolved and before call() reads the body, the abort
\* has errored the body and response.arrayBuffer() rejects with a TypeError
\* (Body is unusable)
BodyReadOnAbort == {"rejected", "unusable", "unaffected"}

\* controller.abort(): the abort listeners run.  A pending fetch and a
\* pending XHR are rejected; the body read of a fetch response is rejected
\* or not, as the platform has it, and ctx.response stays as assigned; a
\* Response built from a loaded XHR has its body in memory, and a call whose
\* load listener threw has no listener left on the signal
Abort ==
  /\ cpc \in {"run", "net", "body", "lost"}
  /\ ~signal.aborted
  /\ signal' = [aborted |-> TRUE, at |-> AbortMoment]
  /\ \E read \in (IF cpc = "body" /\ net.via = "fetch" THEN BodyReadOnAbort
                   ELSE {"unaffected"}) :
       IF cpc = "net" \/ read # "unaffected"
         THEN /\ Complete(IF read = "unusable" THEN Failure("TypeError")
                                                ELSE Failure("AbortError"))
              /\ net' = [net EXCEPT !.listening = ListenerAfter(@, "abort")]
              /\ cpc' = "run"
         ELSE /\ UNCHANGED pipeVars
              /\ UNCHANGED <<net, cpc>>
  /\ UNCHANGED <<mwMap, assignLog, call, cctx, outcome>>
  /\ UNCHANGED <<srvVars, wireVars, ctxVars, isoVars>>

\* variant: the call resolves to what the pipeline resolved to
CallOutcomeOfPipeline(r, isContextRequested, ctx) ==
  IF r.kind = "error" THEN r
  ELSE IF isContextRequested THEN Value("ctx") ELSE r

\* await pipeline(...).catch(e => { throw e });
\* return isContextRequested ? ctx : ctx.result
CallOutcome(r, isContextRequested, ctx) ==
  IF r.kind = "error" THEN r
  ELSE Value(IF isContextRequested THEN "ctx" ELSE ctx.result)

\* the pipeline settled: the promise of the call rejects with its failure,
\* or resolves with ctx (the _ctx variants) or ctx.result
CallSettle ==
  /\ cpc = "run" /\ stack = <<>> /\ ret.kind # "none"
  /\ \E isContextRequested \in BOOLEAN :
       /\ call' = [call EXCEPT !.variant = IF isContextRequested THEN "ctx"
                                           ELSE "result"]
       /\ outcome' = CallOutcome(ret, isContextRequested, cctx)
  /\ cpc' = "settled"
  /\ UNCHANGED <<mwMap, assignLog, cctx, signal, net>>
  /\ UNCHANGED pipeVars
  /\ UNCHANGED <<srvVars, wireVars, ctxVars, isoVars>>

\* the caller is done with the call
CallReturn ==
  /\ cpc = "settled"
  /\ cpc' = "idle"
  /\ call' = NoCall
  /\ cctx' = NoClientContext
  /\ signal' = NoSignal
  /\ net' = NoNet
  /\ outcome' = NoRet
  /\ PipelineIdle
  /\ UNCHANGED <<mwMap, assignLog>>
  /\ UNCHANGED <<srvVars, wireVars, ctxVars, isoVars>>

(***************************************************************************)
(* Argument values, as call() and the parse functions tell them apart.     *)
(* The arguments of a call are the entries of new Map(Object.entries(args))*)
(* in order: pairs of a key (its characters) and a value.                  *)
(***************************************************************************)
Nul == [ty |-> "null", v |-> "null"]
Undef == [ty |-> "undefined", v |-> "undefined"]
\* a File; files of the model have the media type image/png
File(name) == [ty |-> "file", v |-> name]
List(items) == [ty |-> "list", items |-> items]

\* value instanceof File
IsFile(value) == value.ty = "file"
\* Array.isArray(value)
IsArray(value) == value.ty = "list"

\* String(value); an array is its elements joined by commas, null and
\* undefined elements as the empty string
RECURSIVE StringOf(_)
RECURSIVE ElementsString(_)
ElementsString(items) ==
  IF items = <<>> THEN ""
  ELSE (IF Head(items).ty \in { "null", "undefined" } THEN ""
        ELSE StringOf(Head(items)))
       \o (IF Len(items) > 1 THEN "," \o ElementsString(Tail(items)) ELSE "")
StringOf(value) ==
  CASE value.ty = "file" -> "[object File]"
    [] value.ty = "list" -> ElementsString(value.items)
    [] OTHER -> value.v

\* Object.fromEntries(entries), the keys of the entries being distinct
FromEntries(entries) ==
  [k \in { entries[i].k : i \in 1..Len(entries) } |->
     entries[CHOOSE i \in 1..Len(entries) : entries[i].k = k].v]

\* key.endsWith("[]")
EndsWithBrackets(key) ==
  Len(key) >= 2 /\ key[Len(key) - 1] = "[" /\ key[Len(key)] = "]"

(***************************************************************************)
(* The codec: packr = new Packr({structuredClone: true, useRecords: true}). *)
(* A value is packed as MessagePack bytes and unpacked from bytes.  With   *)
(* records, a plain object is written as a record: the first object of a   *)
(* structure (its list of keys) defines it (fixext 1 of type 0x72, the id  *)
(* of the structure from 0x40 on, the array of the keys), a later one is   *)
(* the id alone, and the values follow in key order.  undefined is fixext  *)
(* 1 of type 0.  An object that is no plain object and that no extension   *)
(* knows (a File) is written as the record of its own enumerable           *)
(* properties, of which a File has none.  The values of the model are      *)
(* texts and keys of at most 31 characters, numbers below 64, null,        *)
(* undefined, files and lists of at most 15 of these; no object occurs     *)
(* twice in one value.  Base64 is computed on the bytes.                   *)
(***************************************************************************)
\* the characters of the codes 32 to 95 and 97 to 126; the code 96 is in no
\* string of the model
AsciiChars ==
  <<" ","!","\"","#","$","%","&","'","(",")","*","+",",","-",".","/",
    "0","1","2","3","4","5","6","7","8","9",":",";","<","=",">","?",
    "@","A","B","C","D","E","F","G","H","I","J","K","L","M","N","O",
    "P","Q","R","S","T","U","V","W","X","Y","Z","[","\\","]","^","_",
    "a","b","c","d","e","f","g","h","i","j","k","l","m","n","o",
    "p","q","r","s","t","u","v","w","x","y","z","{","|","}","~" >>
CharCode(c) ==
  LET i == CHOOSE j \in 1..Len(AsciiChars) : AsciiChars[j] = c
  IN IF i <= 64 THEN 31 + i ELSE 32 + i
CharOfCode(b) == AsciiChars[IF b < 96 THEN b - 31 ELSE b - 32]
IsAsciiCode(b) == b >= 32 /\ b <= 126 /\ b # 96

\* the characters of the texts that values of the model hold
WireTexts == { "x", ">>?" }
TextChars(text) ==
  CASE text = ">>?" -> <<">", ">", "?">>
    [] OTHER -> <<text>>
HasText(chars) == \E t \in WireTexts : TextChars(t) = chars
TextOf(chars) == CHOOSE t \in WireTexts : TextChars(t) = chars

\* the number a numeral of the model stands for
NumberOf(numeral) == CHOOSE n \in 0..63 : ToString(n) = numeral

\* a plain object as a value: {} when it has no field
ObjectValue(fields) == [ty |-> "object", fields |-> fields]
EmptyObject == ObjectValue(EmptyArgs)

\* a string: fixstr
PackString(chars) ==
  <<160 + Len(chars)>> \o [i \in 1..Len(chars) |-> CharCode(chars[i])]

\* a value inside the top object, whose structure has the id 0x40: the
\* record without keys is defined (id 0x41) by the first value that needs
\* it; own tells whether it has been defined
RECURSIVE PackValue(_, _)
RECURSIVE PackItems(_, _)
PackItems(items, own) ==
  IF items = <<>> THEN [bytes |-> <<>>, own |-> own]
  ELSE LET first == PackValue(Head(items), own)
           rest == PackItems(Tail(items), first.own)
       IN [bytes |-> first.bytes \o rest.bytes, own |-> rest.own]
PackValue(value, own) ==
  CASE value.ty = "str" ->
         [bytes |-> PackString(TextChars(value.v)), own |-> own]
    [] value.ty = "num" -> [bytes |-> <<NumberOf(value.v)>>, own |-> own]
    [] value.ty = "null" -> [bytes |-> <<192>>, own |-> own]
    [] value.ty = "undefined" -> [bytes |-> <<212, 0, 0>>, own |-> own]
    [] value.ty = "list" ->
         LET items == PackItems(value.items, own)
         IN [bytes |-> <<144 + Len(value.items)>> \o items.bytes,
             own |-> items.own]
    [] OTHER ->
         [bytes |-> IF own THEN <<65>> ELSE <<212, 114, 65, 144>>,
          own |-> TRUE]

RECURSIVE PackKeys(_)
PackKeys(entries) ==
  IF entries = <<>> THEN <<>>
  ELSE PackString(Head(entries).k) \o PackKeys(Tail(entries))

\* packr.pack(object), the object having these entries in the order of its
\* keys: the definition of its structure, then its values
pack(entries) ==
  <<212, 114, 64, 144 + Len(entries)>>
    \o PackKeys(entries)
    \o PackItems([i \in 1..Len(entries) |-> entries[i].v], FALSE).bytes

\* the entries of an object in the order of its keys, which is the order in
\* which the Map of the args had them
EntriesOf(args, object) ==
  LET kept == SelectSeq(args, LAMBDA e : e.k \in DOMAIN object)
  IN [i \in 1..Len(kept) |-> Pair(kept[i].k, object[kept[i].k])]

\* what a read of the unpacker yields: a value and the place after it, with
\* the structures defined so far (by id), or a failure
ReadFailed == [ok |-> FALSE, val |-> Nul, next |-> 0, defs |-> <<>>]
ReadOk(val, next, defs) == [ok |-> TRUE, val |-> val, next |-> next, defs |-> defs]

\* the keys of a record definition: n strings
RECURSIVE ReadKeys(_, _, _)
ReadKeys(bytes, i, n) ==
  IF n = 0 THEN [ok |-> TRUE, keys |-> <<>>, next |-> i]
  ELSE IF i > Len(bytes) \/ bytes[i] < 160 \/ bytes[i] > 191
            \/ i + (bytes[i] - 160) > Len(bytes)
    THEN [ok |-> FALSE, keys |-> <<>>, next |-> 0]
  ELSE LET len == bytes[i] - 160
           rest == ReadKeys(bytes, i + len + 1, n - 1)
       IN IF \E j \in 1..len : ~IsAsciiCode(bytes[i + j])
            THEN [ok |-> FALSE, keys |-> <<>>, next |-> 0]
            ELSE [ok |-> rest.ok,
                  keys |-> << [j \in 1..len |-> CharOfCode(bytes[i + j])] >>
                             \o rest.keys,
                  next |-> rest.next]

\* read(): the value at place i
RECURSIVE ReadValue(_, _, _)
RECURSIVE ReadItems(_, _, _, _)
ReadItems(bytes, i, n, defs) ==
  IF n = 0 THEN [ok |-> TRUE, vals |-> <<>>, next |-> i, defs |-> defs]
  ELSE LET first == ReadValue(bytes, i, defs) IN
       IF ~first.ok THEN [ok |-> FALSE, vals |-> <<>>, next |-> 0, defs |-> defs]
       ELSE LET rest == ReadItems(bytes, first.next, n - 1, first.defs)
            IN [ok |-> rest.ok, vals |-> <<first.val>> \o rest.vals,
                next |-> rest.next, defs |-> rest.defs]

\* a record of a structure: one value per key
ReadRecord(bytes, i, defs, keys) ==
  LET items == ReadItems(bytes, i, Len(keys), defs) IN
  IF ~items.ok THEN ReadFailed
  ELSE ReadOk(ObjectValue([k \in Range(keys) |->
                             items.vals[CHOOSE j \in 1..Len(keys) : keys[j] = k]]),
              items.next, items.defs)

ReadValue(bytes, i, defs) ==
  IF i > Len(bytes) THEN ReadFailed
  ELSE LET b == bytes[i] IN
    CASE b < 64 -> ReadOk(Num(ToString(b)), i + 1, defs)
      [] b >= 64 /\ b < 128 ->
           IF b \in DOMAIN defs THEN ReadRecord(bytes, i + 1, defs, defs[b])
           ELSE ReadOk(Num(ToString(b)), i + 1, defs)
      [] b >= 144 /\ b < 160 ->
           LET items == ReadItems(bytes, i + 1, b - 144, defs) IN
           IF items.ok THEN ReadOk(List(items.vals), items.next, items.defs)
           ELSE ReadFailed
      [] b >= 160 /\ b < 192 ->
           LET len == b - 160 IN
           IF i + len > Len(bytes) \/ \E j \in 1..len : ~IsAsciiCode(bytes[i + j])
             THEN ReadFailed
           ELSE LET chars == [j \in 1..len |-> CharOfCode(bytes[i + j])] IN
                IF HasText(chars) THEN ReadOk(Str(TextOf(chars)), i + len + 1, defs)
                ELSE ReadFailed
      [] b = 192 -> ReadOk(Nul, i + 1, defs)
      [] b = 212 ->
           IF i + 2 > Len(bytes) THEN ReadFailed
           ELSE IF bytes[i + 1] = 0 THEN ReadOk(Undef, i + 3, defs)
           ELSE IF bytes[i + 1] = 114 /\ i + 3 <= Len(bytes)
                   /\ bytes[i + 3] >= 144 /\ bytes[i + 3] < 160
             THEN LET keys == ReadKeys(bytes, i + 4, bytes[i + 3] - 144)
                      id == 64 + (bytes[i + 2] % 64)
                  IN IF keys.ok
                       THEN ReadRecord(bytes, keys.next,
                                       (id :> keys.keys) @@ defs, keys.keys)
                       ELSE ReadFailed
           ELSE ReadFailed
      [] OTHER -> ReadFailed

\* packr.unpack(bytes): the one value the bytes hold; it throws when they
\* hold none, or more
unpack(bytes) ==
  LET r == ReadValue(bytes, 1, <<>>) IN
  IF r.ok /\ r.next = Len(bytes) + 1 THEN [ok |-> TRUE, val |-> r.val]
  ELSE [ok |-> FALSE, val |-> Nul]

\* the args an unpacked value gives the handler's context,
\* Object.entries(args || {}): the fields of an object, the characters of
\* a string and the elements of an array by index, and nothing for a
\* number, null or undefined
ArgsOfValue(val) ==
  LET IndexKey(i) == IF i < 10 THEN << ToString(i) >>
                     ELSE << ToString(i \div 10), ToString(i % 10) >>
      Indexed(items) ==
        [k \in { IndexKey(i - 1) : i \in 1..Len(items) } |->
           items[CHOOSE i \in 1..Len(items) : IndexKey(i - 1) = k]]
  IN CASE val.ty = "object" -> val.fields
       [] val.ty = "str" ->
            Indexed([i \in 1..Len(TextChars(val.v)) |-> Str(TextChars(val.v)[i])])
       [] val.ty = "list" -> Indexed(val.items)
       [] OTHER -> EmptyArgs

Base64Chars == UpperChars \o LowerChars \o DigitChars \o <<"+", "/">>

\* btoa(binStr)
RECURSIVE Btoa(_)
Btoa(bytes) ==
  IF Len(bytes) = 0 THEN <<>>
  ELSE IF Len(bytes) = 1
    THEN << Base64Chars[(bytes[1] \div 4) + 1],
            Base64Chars[((bytes[1] % 4) * 16) + 1], "=", "=" >>
  ELSE IF Len(bytes) = 2
    THEN << Base64Chars[(bytes[1] \div 4) + 1],
            Base64Chars[((bytes[1] % 4) * 16 + (bytes[2] \div 16)) + 1],
            Base64Chars[((bytes[2] % 16) * 4) + 1], "=" >>
  ELSE << Base64Chars[(bytes[1] \div 4) + 1],
          Base64Chars[((bytes[1] % 4) * 16 + (bytes[2] \div 16)) + 1],
          Base64Chars[((bytes[2] % 16) * 4 + (bytes[3] \div 64)) + 1],
          Base64Chars[(bytes[3] % 64) + 1] >>
       \o Btoa(SubSeq(bytes, 4, Len(bytes)))

\* .replace(/x/g, y) for single characters
ReplaceChar(text, x, y) == [i \in 1..Len(text) |-> IF text[i] = x THEN y ELSE text[i]]

\* .replace(/=+$/, "")
RECURSIVE StripPadding(_)
StripPadding(text) ==
  IF Len(text) > 0 /\ text[Len(text)] = "="
    THEN StripPadding(SubSeq(text, 1, Len(text) - 1))
    ELSE text

encodeToBase64Url(data) ==
  StripPadding(ReplaceChar(ReplaceChar(Btoa(data), "+", "-"), "/", "_"))

\* the six bits a character stands for in Buffer.from(text, "base64url"),
\* which reads both alphabets; -1 for any other character
SextetOf(c) ==
  CASE c = "-" -> 62
    [] c = "_" -> 63
    [] c \in Range(Base64Chars) ->
         (CHOOSE i \in 1..Len(Base64Chars) : Base64Chars[i] = c) - 1
    [] OTHER -> -1

RECURSIVE BytesOfSextets(_)
BytesOfSextets(q) ==
  IF Len(q) < 2 THEN <<>>
  ELSE IF Len(q) = 2 THEN << q[1] * 4 + (q[2] \div 16) >>
  ELSE IF Len(q) = 3
    THEN << q[1] * 4 + (q[2] \div 16), (q[2] % 16) * 16 + (q[3] \div 4) >>
  ELSE << q[1] * 4 + (q[2] \div 16), (q[2] % 16) * 16 + (q[3] \div 4),
          (q[3] % 4) * 64 + q[4] >>
       \o BytesOfSextets(SubSeq(q, 5, Len(q)))

\* the characters Buffer.from decodes: those of the alphabet before the
\* first "="; any other character is skipped
RECURSIVE DecodedChars(_)
DecodedChars(text) ==
  IF Len(text) = 0 \/ Head(text) = "=" THEN <<>>
  ELSE (IF SextetOf(Head(text)) < 0 THEN <<>> ELSE <<Head(text)>>)
         \o DecodedChars(Tail(text))

\* Buffer.from(text, "base64url"): characters outside the alphabet are
\* skipped and the padding ends the decoding
FromBase64Url(text) ==
  LET valid == DecodedChars(text)
  IN BytesOfSextets([i \in 1..Len(valid) |-> SextetOf(valid[i])])

(***************************************************************************)
(* call(): the request built from the context of a call.                   *)
(***************************************************************************)
KNote   == <<"n","o","t","e">>
KFiles  == <<"f","i","l","e","s">>
KFilesB == <<"f","i","l","e","s","[","]">>
KArgs   == <<"a","r","g","s">>
KId     == <<"i","d">>

\* a Blob appended to a form: its media type and the bytes it holds
Blob(type, bytes) == [ty |-> "blob", bytes |-> bytes, type |-> type]

\* variant: a list counts as an upload when its first element is a file
IsUploadFirstOnly(value) ==
  \/ IsFile(value)
  \/ IsArray(value) /\ Len(value.items) > 0 /\ IsFile(value.items[1])

\* value instanceof File ||
\* (Array.isArray(value) && value.length > 0 && value.every(v => v instanceof File))
IsUpload(value) ==
  \/ IsFile(value)
  \/ IsArray(value) /\ Len(value.items) > 0
       /\ \A i \in 1..Len(value.items) : IsFile(value.items[i])

\* the uploads map after the scan of a command's args
Uploads(rpcType, args) ==
  IF rpcType = "command" THEN SelectSeq(args, LAMBDA e : IsUpload(e.v)) ELSE <<>>

\* ctx.args after the scan
ArgsLeft(rpcType, args) ==
  IF rpcType = "command" THEN SelectSeq(args, LAMBDA e : ~IsUpload(e.v)) ELSE args

RequestType(rpcType, uploads) ==
  CASE rpcType = "get" -> "GET"
    [] rpcType = "query" -> "QUERY"
    [] OTHER -> IF Len(uploads) > 0 THEN "UPLOAD" ELSE "COMMAND"

\* case "GET": url.searchParams.set(key, String(value)) for every value that
\* is neither undefined nor null
RECURSIVE GetSearch(_)
GetSearch(args) ==
  IF args = <<>> THEN <<>>
  ELSE (IF Head(args).v.ty \in { "undefined", "null" } THEN <<>>
        ELSE << Pair(Head(args).k, StringOf(Head(args).v)) >>)
       \o GetSearch(Tail(args))

\* variant: the values that are undefined or null are left out of the object
QueryPayloadDefinedOnly(args) ==
  FromEntries(SelectSeq(args, LAMBDA e : e.v.ty \notin { "undefined", "null" }))

\* case "QUERY": the object handed to packr.pack
QueryPayload(args) == FromEntries(args)

\* case "QUERY": the args parameter is set when args remain
QuerySearch(args, bytes) ==
  IF Len(args) > 0 THEN << Pair(KArgs, encodeToBase64Url(bytes)) >> ELSE <<>>

\* variant: a list is appended under its key as it is
UploadKeyAsIs(key) == key

\* key.endsWith("[]") ? key : `${key}[]`
UploadKey(key) == IF EndsWithBrackets(key) THEN key ELSE key \o <<"[", "]">>

\* the parts appended for one upload
UploadParts(e) ==
  IF IsArray(e.v)
    THEN [i \in 1..Len(e.v.items) |-> Pair(UploadKey(e.k), e.v.items[i])]
    ELSE << Pair(e.k, e.v) >>

RECURSIVE UploadsParts(_)
UploadsParts(uploads) ==
  IF uploads = <<>> THEN <<>>
  ELSE UploadParts(Head(uploads)) \o UploadsParts(Tail(uploads))

\* case "UPLOAD": the args blob when args remain, then the parts of the uploads
UploadForm(args, uploads, bytes) ==
  (IF Len(args) > 0 THEN << Pair(KArgs, Blob("application/msgpack", bytes)) >>
   ELSE <<>>)
  \o UploadsParts(uploads)

NoWireRequest ==
  [type |-> "none", method |-> "", search |-> <<>>, form |-> <<>>,
   body |-> <<>>, ctype |-> HeaderAbsent, packed |-> <<>>,
   argsLeft |-> <<>>, uploads |-> <<>>, headers |-> NoHeaders]

\* options.headers of a call: not given, or a Headers object of the caller
NoOptionHeaders == [given |-> FALSE, h |-> NoHeaders]
OptionHeaders(h) == [given |-> TRUE, h |-> h]
OptionHeadersSamples ==
  { NoOptionHeaders,
    OptionHeaders("x-custom-header" :> "value"),
    OptionHeaders(("accept" :> "application/json") @@ ("x-custom-header" :> "value")),
    OptionHeaders(("content-type" :> "text/plain") @@ ("x-custom-header" :> "value")),
    OptionHeaders("content-type" :> "multipart/form-data") }

\* variant: the default is written only when the caller gave no Accept
ClientContextHeadersKeepCaller(options) ==
  LET h == IF options.given THEN options.h ELSE NoHeaders IN
  IF HeadersHas(h, "accept") THEN h
  ELSE HeadersSet(h, "accept", "application/msgpack")

\* new ClientContext(...): options.headers ? options.headers : new Headers(),
\* then _headers.set("accept", "application/msgpack")
ClientContextHeaders(options) ==
  HeadersSet(IF options.given THEN options.h ELSE NoHeaders,
             "accept", "application/msgpack")

\* the headers call() hands to fetch or to fetchWithXhr: ctx.request.headers,
\* with Content-Type set in case "COMMAND"
CallHeaders(ctxHeaders, type) ==
  IF type = "COMMAND"
    THEN HeadersSet(ctxHeaders, "Content-Type", "application/msgpack")
    ELSE ctxHeaders

\* the caller's options.headers once the request is built: the context keeps
\* that very object (options.headers ? options.headers : new Headers()), so
\* what the constructor and call() set on ctx.request.headers is set on it
OptionHeadersAfter(options, requestHeaders) ==
  IF options.given THEN OptionHeaders(requestHeaders) ELSE options

\* the Content-Type the request goes out with: the one among the headers
\* handed to the transport (the caller's, or the one call() set), else the
\* one the transport derives from a FormData body, which names the
\* boundary of the parts, else none
SentContentType(headers, type) ==
  IF HeadersHas(headers, "content-type") THEN { headers["content-type"] }
  ELSE IF type = "UPLOAD" THEN { "multipart/form-data", "boundary" }
  ELSE HeaderAbsent

\* the request call() hands to fetch; packed holds the bytes of the args
\* when the request packs any
BuildRequest(rpcType, args, options) ==
  LET uploads == Uploads(rpcType, args)
      left == ArgsLeft(rpcType, args)
      type == RequestType(rpcType, uploads)
      payload == IF type = "QUERY" THEN QueryPayload(left) ELSE FromEntries(left)
      bytes == IF type = "COMMAND" \/ (type \in { "QUERY", "UPLOAD" } /\ Len(left) > 0)
                 THEN pack(EntriesOf(left, payload))
                 ELSE <<>>
      headers == CallHeaders(ClientContextHeaders(options), type)
  IN [type |-> type,
      method |-> IF rpcType = "command" THEN "POST" ELSE "GET",
      search |-> CASE type = "GET" -> GetSearch(left)
                   [] type = "QUERY" -> QuerySearch(left, bytes)
                   [] OTHER -> <<>>,
      form |-> IF type = "UPLOAD" THEN UploadForm(left, uploads, bytes) ELSE <<>>,
      body |-> IF type = "COMMAND" THEN bytes ELSE <<>>,
      ctype |-> SentContentType(headers, type),
      packed |-> bytes,
      argsLeft |-> left,
      uploads |-> uploads,
      headers |-> headers]

(***************************************************************************)
(* The server's reading of a request the client built.                     *)
(***************************************************************************)
\* url.searchParams.get("args") as parseQuery takes it: absent (or empty),
\* or text that is base64url-decoded and unpacked, which can fail
ArgsParamOf(search) ==
  LET hits == SelectSeq(search, LAMBDA e : e.k = KArgs) IN
  IF hits = <<>> \/ hits[1].v = <<>> THEN Body("absent", EmptyArgs)
  ELSE LET unpacked == unpack(FromBase64Url(hits[1].v)) IN
       IF unpacked.ok THEN Body("b64msgpack", ArgsOfValue(unpacked.val))
       ELSE Body("garbage", EmptyArgs)

\* value instanceof Blob: a File is a Blob
IsBlob(value) == value.ty \in { "blob", "file" }
BlobType(value) == IF value.ty = "blob" THEN value.type ELSE "image/png"

\* formData.get(key): the first value of the key, or null
FormGet(form, key) ==
  LET hits == SelectSeq(form, LAMBDA e : e.k = key) IN
  IF hits = <<>> THEN Nul ELSE hits[1].v

\* formData.getAll(key): every value of the key, in order
FormGetAll(form, key) ==
  LET hits == SelectSeq(form, LAMBDA e : e.k = key) IN
  [i \in 1..Len(hits) |-> hits[i].v]

\* the Set of the keys of the form, in the order of their first occurrence
RECURSIVE FormKeys(_, _)
FormKeys(form, seen) ==
  IF form = <<>> THEN <<>>
  ELSE IF Head(form).k \in seen THEN FormKeys(Tail(form), seen)
  ELSE << Head(form).k >> \o FormKeys(Tail(form), seen \cup { Head(form).k })

\* args[key] = value
Put(args, key, value) ==
  [k \in DOMAIN args \cup {key} |-> IF k = key THEN value ELSE args[k]]

\* the value args holds after the args blob of the form was decoded by its
\* media type: {} without a blob, else packr.unpack(buffer) || {}; the
\* blobs of the model hold packed bytes, which are no JSON text
FormArgsBlob(form) ==
  LET argsBlob == FormGet(form, KArgs) IN
  IF ~IsBlob(argsBlob) THEN Parsed(EmptyObject)
  ELSE CASE BlobType(argsBlob) = "application/json" ->
              ParseFailed(400, "Invalid JSON in args blob")
         [] BlobType(argsBlob) = "application/msgpack" ->
              LET unpacked == unpack(argsBlob.bytes) IN
              IF ~unpacked.ok THEN ParseFailed(400, "Invalid msgpack in args blob")
              ELSE IF unpacked.val \in { Nul, Undef, Num("0") }
                THEN Parsed(EmptyObject)
              ELSE Parsed(unpacked.val)
         [] OTHER -> ParseFailed(400, "Unsupported args type: " \o BlobType(argsBlob))

\* for (const key of keys): the remaining entries augment args
RECURSIVE FormAugment(_, _, _)
FormAugment(args, form, keys) ==
  IF keys = <<>> THEN args
  ELSE LET key == Head(keys)
           augmented ==
             IF key = KArgs THEN args
             ELSE IF EndsWithBrackets(key)
               THEN Put(args, SubSeq(key, 1, Len(key) - 2),
                        List(FormGetAll(form, key)))
             ELSE Put(args, key, FormGet(form, key))
       IN FormAugment(augmented, form, Tail(keys))

\* parseCommandMultipartFormData once request.formData() resolved; args[key]
\* = .. on a string or a number throws a TypeError, which the handler
\* answers with 500
parseFormData(form) ==
  LET blob == FormArgsBlob(form) IN
  IF ~blob.ok THEN blob
  ELSE IF /\ blob.args.ty \in { "str", "num" }
          /\ \E i \in 1..Len(form) : form[i].k # KArgs
    THEN ParseFailed(500, "Internal server error")
  ELSE Parsed(FormAugment(ArgsOfValue(blob.args), form, FormKeys(form, {})))

\* the body of a request as parseCommandMsgpackr reads it: no bytes, bytes
\* that unpack, or bytes that do not; the bytes of a multipart body do not
WireBody(r) ==
  IF r.form # <<>> THEN Body("garbage", EmptyArgs)
  ELSE IF r.body = <<>> THEN NoBody
  ELSE IF unpack(r.body).ok THEN Body("msgpack", ArgsOfValue(unpack(r.body).val))
  ELSE Body("garbage", EmptyArgs)

\* the switch of the handler applied to a request on the wire; a body of
\* the model is never a JSON text.  request.formData() rejects with a
\* TypeError when the Content-Type names no boundary (or the body is not
\* made of parts), which the handler answers with 500
ParseWire(rpcType, r) ==
  CASE rpcType = "get" -> parseGet(r.search)
    [] rpcType = "query" -> parseQuery(ArgsParamOf(r.search))
    [] OTHER ->
         IF Includes(r.ctype, "multipart/form-data")
           THEN IF Includes(r.ctype, "boundary") /\ r.body = <<>>
                  THEN parseFormData(r.form)
                  ELSE ParseFailed(500, "Internal server error")
         ELSE IF Includes(r.ctype, "application/json")
           THEN parseCommandJson(IF r.form = <<>> /\ r.body = <<>> THEN NoBody
                                 ELSE Body("garbage", EmptyArgs))
         ELSE parseCommandMsgpackr(WireBody(r))

(***************************************************************************)
(* One request on the wire: what the client builds (the keys of the        *)
(* middleware map and the URL tail, then the request of call()) and what   *)
(* the server's parse functions make of it.                                *)
(***************************************************************************)
NGetprofile == <<"g","e","t","p","r","o","f","i","l","e">>
NUserId     == <<"u","s","e","r","I","d">>
NUserID     == <<"u","s","e","r","I","D">>

\* property names used on the cfg proxy and the api proxy
KeyNames == { NUsers, NGetProfile, NGetprofile, NUserId, NUserID }

\* cfg.<path>.<prop> = mw: the setter proxies reached and the property set
KeyAssignments ==
  { [path |-> p, prop |-> q] :
      p \in {<<>>} \cup { <<n>> : n \in KeyNames },
      q \in KeyNames \cup {Dollar} }

\* api.<path>.$query(): the call paths
KeyCallPaths ==
  { <<n>> : n \in KeyNames } \cup { <<n, m>> : n \in KeyNames, m \in KeyNames }

NoKeys == [reg |-> <<>>, at |-> <<>>, key |-> <<>>, regTail |-> <<>>,
           tail |-> <<>>, stages |-> <<>>]

\* the arguments of the calls: up to two entries with distinct keys
WireKeys == { KNote, KFiles, KFilesB, KArgs }
WireValues ==
  { Str("x"), Str(">>?"), Num("2"), Nul, Undef, File("f1"),
    List(<<File("f1"), File("f2")>>), List(<<File("f1"), Str("x")>>), List(<<>>) }
WireArgsOfTwo ==
  { << Pair(k1, v1), Pair(k2, v2) >> :
      k1 \in WireKeys, v1 \in WireValues, k2 \in WireKeys, v2 \in WireValues }
WireArgs ==
  { <<>> }
  \cup { << Pair(k, v) >> : k \in WireKeys, v \in WireValues }
  \cup { a \in WireArgsOfTwo : a[1].k # a[2].k }

\* requests no tango client builds: a key repeated in the URL or in the
\* form, and packed args that are no object (a string, an array, a number)
ForeignSearches ==
  { << Pair(KId, "1"), Pair(KId, "2") >>,
    << Pair(KId, "1"), Pair(KNote, "x"), Pair(KId, "3") >> }
ForeignValues ==
  { <<161, 120>>, <<163, 62, 62, 63>>, <<145, 161, 120>>, <<144>>, <<2>>, <<0>>,
    <<192>> }
ForeignForms ==
  { << Pair(KNote, Str("a")), Pair(KNote, Str("b")) >>,
    << Pair(KNote, File("f1")), Pair(KFilesB, File("f2")), Pair(KNote, File("f3")) >> }
  \cup { << Pair(KArgs, Blob("application/msgpack", bytes)) >> :
           bytes \in ForeignValues }
  \cup { << Pair(KArgs, Blob("application/msgpack", bytes)), Pair(KNote, Str("a")) >> :
           bytes \in ForeignValues }

NoWireCall == [rpcType |-> "", args |-> <<>>, foreign |-> FALSE,
               headers |-> NoOptionHeaders, after |-> NoOptionHeaders]
NoParse == [ok |-> FALSE, args |-> EmptyArgs, status |-> 0, msg |-> ""]

WireInit ==
  /\ wpc = "idle"
  /\ wkeys = NoKeys
  /\ wcall = NoWireCall
  /\ wreq = NoWireRequest
  /\ wsrv = NoParse

\* call(baseUrl, ctx) up to fetch: the request is built
WireBuild ==
  /\ wpc = "idle"
  /\ \E rpcType \in { "get", "query", "command" }, args \in WireArgs,
        options \in OptionHeadersSamples :
       /\ wcall' = [rpcType |-> rpcType, args |-> args, foreign |-> FALSE,
                    headers |-> options,
                    after |-> OptionHeadersAfter(options,
                                BuildRequest(rpcType, args, options).headers)]
       /\ wreq' = BuildRequest(rpcType, args, options)
  /\ wpc' = "built"
  /\ UNCHANGED <<wkeys, wsrv>>
  /\ UNCHANGED <<srvVars, pipeVars, cliVars, ctxVars, isoVars>>

\* a request of another client arrives: a get with a repeated key, a query
\* whose args are no object, a multipart command with a repeated key or
\* with args that are no object, or a command whose body is empty, cut
\* short, followed by a second value, or no object
WireForeign ==
  /\ wpc = "idle"
  /\ \/ \E search \in ForeignSearches :
          /\ wcall' = [rpcType |-> "get", args |-> <<>>, foreign |-> TRUE,
                       headers |-> NoOptionHeaders, after |-> NoOptionHeaders]
          /\ wreq' = [NoWireRequest EXCEPT !.type = "GET", !.method = "GET",
                                           !.search = search]
     \/ \E bytes \in ForeignValues :
          /\ wcall' = [rpcType |-> "query", args |-> <<>>, foreign |-> TRUE,
                       headers |-> NoOptionHeaders, after |-> NoOptionHeaders]
          /\ wreq' = [NoWireRequest EXCEPT
                        !.type = "QUERY", !.method = "GET", !.packed = bytes,
                        !.search = << Pair(KArgs, encodeToBase64Url(bytes)) >>]
     \/ \E form \in ForeignForms :
          /\ wcall' = [rpcType |-> "command", args |-> <<>>, foreign |-> TRUE,
                       headers |-> NoOptionHeaders, after |-> NoOptionHeaders]
          /\ wreq' = [NoWireRequest EXCEPT !.type = "UPLOAD", !.method = "POST",
                                           !.form = form,
                                           !.ctype = {"multipart/form-data",
                                                      "boundary"}]
     \/ \E body \in { <<>>, <<212, 114, 64>>,
                       pack(<< Pair(KId, Num("2")) >>) \o <<192>> }
                     \cup ForeignValues :
          /\ wcall' = [rpcType |-> "command", args |-> <<>>, foreign |-> TRUE,
                       headers |-> NoOptionHeaders, after |-> NoOptionHeaders]
          /\ wreq' = [NoWireRequest EXCEPT !.type = "COMMAND", !.method = "POST",
                                           !.body = body, !.packed = body,
                                           !.ctype = {"application/msgpack"}]
  /\ wpc' = "built"
  /\ UNCHANGED <<wkeys, wsrv>>
  /\ UNCHANGED <<srvVars, pipeVars, cliVars, ctxVars, isoVars>>

\* the handler parses the arguments of the request
WireParse ==
  /\ wpc = "built"
  /\ wsrv' = ParseWire(wcall.rpcType, wreq)
  /\ wpc' = "parsed"
  /\ UNCHANGED <<wkeys, wcall, wreq>>
  /\ UNCHANGED <<srvVars, pipeVars, cliVars, ctxVars, isoVars>>

\* one cfg assignment on a fresh client, then the stages and the URL tail of
\* a call
KeysAssignAndCall ==
  /\ wpc = "idle"
  /\ \E t \in KeyAssignments, q \in KeyCallPaths :
       LET keyPath == SetterKeyPath(t.path, t.prop)
           key == MiddlewareKey(keyPath)
           map == SetterSet(<<>>, key, [isArray |-> FALSE, items |-> <<Mw(1, 1)>>])
       IN wkeys' = [reg |-> keyPath, at |-> q, key |-> key,
                    regTail |-> ClientPathString(keyPath),
                    tail |-> ClientPathString(q),
                    stages |-> AssembleMiddlewares(map, q)]
  /\ wpc' = "keys"
  /\ UNCHANGED <<wcall, wreq, wsrv>>
  /\ UNCHANGED <<srvVars, pipeVars, cliVars, ctxVars, isoVars>>

\* identifiers given to camelToKebabCase
NGetUserID  == <<"g","e","t","U","s","e","r","I","D">>
NHTTPServer == <<"H","T","T","P","S","e","r","v","e","r">>
NV2Parser   == <<"v","2","P","a","r","s","e","r">>
NGetUSERid  == <<"g","e","t","U","S","E","R","i","d">>
NParseXMLv2 == <<"p","a","r","s","e","X","M","L","v","2">>
KebabSamples ==
  KeyNames \cup { NGetUserID, NHTTPServer, NV2Parser, NGetUSERid, NParseXMLv2 }

\* a name is normalised, and what came out is normalised again
KebabApply ==
  /\ wpc = "idle"
  /\ \E name \in KebabSamples :
       wkeys' = [NoKeys EXCEPT !.reg = <<name>>,
                               !.key = camelToKebabCase(name),
                               !.regTail = camelToKebabCase(camelToKebabCase(name))]
  /\ wpc' = "kebab"
  /\ UNCHANGED <<wcall, wreq, wsrv>>
  /\ UNCHANGED <<srvVars, pipeVars, cliVars, ctxVars, isoVars>>

\* the client and the request are dropped
WireReset ==
  /\ wpc # "idle"
  /\ wpc' = "idle"
  /\ wkeys' = NoKeys
  /\ wcall' = NoWireCall
  /\ wreq' = NoWireRequest
  /\ wsrv' = NoParse
  /\ UNCHANGED <<srvVars, pipeVars, cliVars, ctxVars, isoVars>>

(***************************************************************************)
(* ServerContext (server-context.ts): the status and cache accessors.  A   *)
(* JavaScript number is finite, counted in tenths, or NaN or an infinity.  *)
(***************************************************************************)
JsNum(tenths) == [kind |-> "finite", tenths |-> tenths]
NaN == [kind |-> "NaN", tenths |-> 0]
PosInfinity == [kind |-> "Infinity", tenths |-> 0]
NegInfinity == [kind |-> "-Infinity", tenths |-> 0]

\* Math.floor(x)
MathFloor(x) ==
  IF x.kind = "finite" THEN JsNum((x.tenths \div 10) * 10) ELSE x

\* Math.max(0, x)
MathMaxZero(x) ==
  CASE x.kind = "NaN" -> NaN
    [] x.kind = "Infinity" -> PosInfinity
    [] x.kind = "-Infinity" -> JsNum(0)
    [] OTHER -> IF x.tenths > 0 THEN x ELSE JsNum(0)

\* variant: the seconds are not rounded down
CacheSetValueNoFloor(seconds) == MathMaxZero(seconds)

\* cache.set(seconds): this._cache = Math.max(0, Math.floor(seconds))
CacheSetValue(seconds) == MathMaxZero(MathFloor(seconds))

\* status.set(status): this._status = status
StatusSetValue(status) == status

\* the status shortcuts and the code each assigns
StatusShortcuts ==
  << <<"continue", 100>>, <<"switchingProtocols", 101>>, <<"processing", 102>>,
     <<"ok", 200>>, <<"created", 201>>, <<"accepted", 202>>,
     <<"noContent", 204>>, <<"resetContent", 205>>, <<"partialContent", 206>>,
     <<"multipleChoices", 300>>, <<"movedPermanently", 301>>, <<"found", 302>>,
     <<"seeOther", 303>>, <<"notModified", 304>>, <<"temporaryRedirect", 307>>,
     <<"permanentRedirect", 308>>,
     <<"badRequest", 400>>, <<"unauthorized", 401>>, <<"paymentRequired", 402>>,
     <<"forbidden", 403>>, <<"notFound", 404>>, <<"methodNotAllowed", 405>>,
     <<"notAcceptable", 406>>, <<"conflict", 409>>, <<"gone", 410>>,
     <<"lengthRequired", 411>>, <<"preconditionFailed", 412>>,
     <<"payloadTooLarge", 413>>, <<"uriTooLong", 414>>, <<"badContent", 415>>,
     <<"rangeNotSatisfiable", 416>>, <<"expectationFailed", 417>>,
     <<"tooManyRequests", 429>>,
     <<"serverError", 500>>, <<"notImplemented", 501>>, <<"badGateway", 502>>,
     <<"serviceUnavailable", 503>>, <<"gatewayTimeout", 504>>,
     <<"httpVersionNotSupported", 505>> >>

ShortcutNames == { StatusShortcuts[i][1] : i \in 1..Len(StatusShortcuts) }

\* variant: every shortcut writes 200
StatusShortcutAlwaysOk(name) == 200

\* status.<name>(): this._status = <code>
StatusShortcut(name) ==
  StatusShortcuts[CHOOSE i \in 1..Len(StatusShortcuts) : StatusShortcuts[i][1] = name][2]

\* the arguments user code gives to status.set and to cache.set
StatusInputs == { 0, 99, 100, 200, 299, 404, 599, 600, 1000 }
CacheInputs ==
  { JsNum(-15), JsNum(-10), JsNum(-1), JsNum(0), JsNum(5), JsNum(10), JsNum(19),
    JsNum(600), NaN, PosInfinity, NegInfinity }

NoStatusWrite == [op |-> "none", arg |-> 0]
NoCacheWrite == [written |-> FALSE, seconds |-> JsNum(0)]
NoWrites == [status |-> NoStatusWrite, cache |-> NoCacheWrite]
NoTestContext == [made |-> FALSE, status |-> 200, cache |-> JsNum(0)]

ContextInit ==
  /\ tctx = NoTestContext
  /\ tlast = NoWrites

\* new ServerContext(args, event): _cache = 0, _status = 200
CtxNew ==
  /\ ~tctx.made
  /\ tctx' = [made |-> TRUE, status |-> 200, cache |-> JsNum(0)]
  /\ tlast' = NoWrites
  /\ UNCHANGED <<srvVars, pipeVars, cliVars, wireVars, isoVars>>

\* ctx.status.set(code)
CtxStatusSet ==
  /\ tctx.made
  /\ \E code \in StatusInputs :
       /\ tctx' = [tctx EXCEPT !.status = StatusSetValue(code)]
       /\ tlast' = [tlast EXCEPT !.status = [op |-> "set", arg |-> code]]
  /\ UNCHANGED <<srvVars, pipeVars, cliVars, wireVars, isoVars>>

\* ctx.status.<name>()
CtxStatusShortcut ==
  /\ tctx.made
  /\ \E name \in ShortcutNames :
       /\ tctx' = [tctx EXCEPT !.status = StatusShortcut(name)]
       /\ tlast' = [tlast EXCEPT !.status = [op |-> name, arg |-> 0]]
  /\ UNCHANGED <<srvVars, pipeVars, cliVars, wireVars, isoVars>>

\* ctx.cache.set(seconds)
CtxCacheSet ==
  /\ tctx.made
  /\ \E seconds \in CacheInputs :
       /\ tctx' = [tctx EXCEPT !.cache = CacheSetValue(seconds)]
       /\ tlast' = [tlast EXCEPT !.cache = [written |-> TRUE, seconds |-> seconds]]
  /\ UNCHANGED <<srvVars, pipeVars, cliVars, wireVars, isoVars>>

\* the handler's catch block on a ZodError: ctx.cache.set(0);
\* ctx.status.set(422)
CtxValidationReset ==
  /\ tctx.made
  /\ tctx' = [tctx EXCEPT !.cache = CacheSetValue(JsNum(0)),
                          !.status = StatusSetValue(422)]
  /\ tlast' = [status |-> [op |-> "set", arg |-> 422],
               cache |-> [written |-> TRUE, seconds |-> JsNum(0)]]
  /\ UNCHANGED <<srvVars, pipeVars, cliVars, wireVars, isoVars>>

\* the request is over; the context is dropped
CtxDrop ==
  /\ tctx.made
  /\ tctx' = NoTestContext
  /\ tlast' = NoWrites
  /\ UNCHANGED <<srvVars, pipeVars, cliVars, wireVars, isoVars>>

(***************************************************************************)
(* Two requests of one handler, in flight together.  A ServerContext, its  *)
(* response Headers and its env and args Maps are objects: a context holds *)
(* its numbers and references to the other three.  The steps of a request  *)
(* are the handler's (lookup and construction, makeResponse) and the calls *)
(* its implementation makes through ctx in between.  The middleware of the *)
(* application is middleware that relays (return next()): what the handler *)
(* answers is then what the implementation returned and wrote.             *)
(***************************************************************************)
Slots == { 1, 2 }

\* what marks the values of a request
Tag(r) == IF r = 1 THEN "r1" ELSE "r2"
StatusOf(r) == 200 + r
SecondsOf(r) == 10 * r

\* the endpoints the two requests are for, both reached with GET
IsoEndpoints == { <<NPing>>, <<NPosts, NById>> }

EmptyHeap == [ctx |-> <<>>, headers |-> <<>>, maps |-> <<>>]

\* variant: every context refers to the response Headers of the first one
ConstructSharedHeaders(h, args) ==
  [ctx |-> Append(h.ctx, [status |-> 200, cache |-> 0,
                          response |-> 1,
                          env |-> Len(h.maps) + 1,
                          args |-> Len(h.maps) + 2]),
   headers |-> Append(h.headers, NoHeaders),
   maps |-> h.maps \o <<EmptyArgs, args>>]

\* new ServerContext(args, event): _status 200, _cache 0, a new Headers for
\* the response, a new Map for env, a new Map of the entries of args
Construct(h, args) ==
  [ctx |-> Append(h.ctx, [status |-> 200, cache |-> 0,
                          response |-> Len(h.headers) + 1,
                          env |-> Len(h.maps) + 1,
                          args |-> Len(h.maps) + 2]),
   headers |-> Append(h.headers, NoHeaders),
   maps |-> h.maps \o <<EmptyArgs, args>>]

\* Map.prototype.set
MapSet(m, key, value) ==
  [x \in DOMAIN m \cup {key} |-> IF x = key THEN value ELSE m[x]]

\* the calls user code makes through the context c
HeapStatusSet(h, c, status) ==
  [h EXCEPT !.ctx[c].status = StatusSetValue(status)]
HeapCacheSet(h, c, seconds) ==
  [h EXCEPT !.ctx[c] = CacheSet(@, seconds)]
HeapHeaderSet(h, c, name, value) ==
  [h EXCEPT !.headers[h.ctx[c].response] = HeadersSet(@, name, value)]
HeapEnvSet(h, c, key, value) ==
  [h EXCEPT !.maps[h.ctx[c].env] = MapSet(@, key, value)]
HeapArgsSet(h, c, key, value) ==
  [h EXCEPT !.maps[h.ctx[c].args] = MapSet(@, key, value)]

\* what is read through the context c
ContextView(h, c) ==
  [made |-> TRUE,
   args |-> h.maps[h.ctx[c].args],
   status |-> h.ctx[c].status,
   cache |-> h.ctx[c].cache,
   headers |-> h.headers[h.ctx[c].response]]
ContextEnv(h, c) == h.maps[h.ctx[c].env]

\* the implementation serving request r: these calls through ctx, one per
\* step
UserCalls == <<"status", "cache", "header", "env", "args">>
UserWrite(h, c, r, step) ==
  CASE UserCalls[step] = "status" -> HeapStatusSet(h, c, StatusOf(r))
    [] UserCalls[step] = "cache" -> HeapCacheSet(h, c, SecondsOf(r))
    [] UserCalls[step] = "header" -> HeapHeaderSet(h, c, "x-request", Tag(r))
    [] UserCalls[step] = "env" -> HeapEnvSet(h, c, "user", Str(Tag(r)))
    [] OTHER -> HeapArgsSet(h, c, "extra", Str(Tag(r)))

\* variant: the lookup pushes onto the root's own list
AttachedAfterLookupNoCopy(attached, pathSegments) ==
  IF RootNode \in DOMAIN attached
    THEN [attached EXCEPT ![RootNode] =
            findRpcMethodDescriptor(pathSegments, attached, {}).middlewares]
    ELSE attached

\* the lists of the tree once findRpcMethodDescriptor has run: it pushes
\* onto [...getMiddlewares(apiDefinition)], an array of its own
AttachedAfterLookup(attached, pathSegments) == attached

NoSlot == [pc |-> "idle", ctx |-> 0, step |-> 0, resp |-> NoResponse]

IsolationInit ==
  /\ slots = [r \in Slots |-> NoSlot]
  /\ heap = EmptyHeap

\* handler(event) for request r up to the pipeline call: the route lookup
\* and createServerContext(args, event)
IsoStart(r) ==
  /\ spc = "idle" /\ slots[r].pc = "idle"
  /\ \E e \in IsoEndpoints :
       /\ findRpcMethodDescriptor(e, mwAttached, zodCached).found
       /\ mwAttached' = AttachedAfterLookup(mwAttached, e)
       /\ heap' = Construct(heap, "who" :> Str(Tag(r)))
       /\ slots' = [slots EXCEPT ![r] =
                      [pc |-> "run", ctx |-> Len(heap.ctx) + 1, step |-> 0,
                       resp |-> NoResponse]]
  /\ UNCHANGED <<spc, attachLog, attachCount, zodCached, req, sctx, resp, implRuns,
                 implArgs, mwRuns, ctxCreated, zodRejects, bodyRead>>
  /\ UNCHANGED <<pipeVars, cliVars, wireVars, ctxVars>>

\* the implementation of request r makes its next call through ctx
IsoWrite(r) ==
  /\ slots[r].pc = "run" /\ slots[r].step < Len(UserCalls)
  /\ heap' = UserWrite(heap, slots[r].ctx, r, slots[r].step + 1)
  /\ slots' = [slots EXCEPT ![r].step = @ + 1]
  /\ UNCHANGED <<srvVars, pipeVars, cliVars, wireVars, ctxVars>>

\* the implementation of request r returns ctx.args.get("who"), after no
\* call through ctx or after all of them; the middleware above it, which
\* relay, return that, and the handler answers with
\* makeResponse(result, ctx)
IsoRespond(r) ==
  /\ slots[r].pc = "run" /\ slots[r].step \in {0, Len(UserCalls)}
  /\ LET c == slots[r].ctx
         result == ContextView(heap, c).args["who"].v
         made == makeResponse(result, ContextView(heap, c), "GET", HeaderAbsent)
     IN /\ heap' = [heap EXCEPT !.headers[heap.ctx[c].response] =
                                  made.resp.headers]
        /\ slots' = [slots EXCEPT ![r].pc = "done", ![r].resp = made.resp]
  /\ UNCHANGED <<srvVars, pipeVars, cliVars, wireVars, ctxVars>>

Init ==
  /\ ServerInit /\ PipeInit /\ ClientInit /\ WireInit /\ ContextInit
  /\ IsolationInit

Next ==
  \/ Attach
  \/ CreateHandler
  \/ HandlerStart
  \/ HandlerParsed
  \/ SrvMiddlewareEnter
  \/ SrvMiddlewareSettle
  \/ SrvTerminal
  \/ HandlerRespond
  \/ HandlerReturn

Spec == Init /\ [][Next]_vars

NextClient ==
  \/ CfgAssign
  \/ CallStart
  \/ CliMiddlewareEnter
  \/ CliMiddlewareSettle
  \/ CliTransportSend
  \/ NetSettle
  \/ BodyRead
  \/ Abort
  \/ CallSettle
  \/ CallReturn

SpecClient == Init /\ [][NextClient]_vars

NextWire ==
  \/ KeysAssignAndCall
  \/ WireBuild
  \/ KebabApply
  \/ WireForeign
  \/ WireParse
  \/ WireReset

SpecWire == Init /\ [][NextWire]_vars

NextContext ==
  \/ CtxNew
  \/ CtxStatusSet
  \/ CtxStatusShortcut
  \/ CtxCacheSet
  \/ CtxValidationReset
  \/ CtxDrop

SpecContext == Init /\ [][NextContext]_vars

\* middleware that relays, alone or as an array of two
RelayingMiddlewareLists == { <<"pass">>, <<"pass", "pass">> }

\* the server set up with relaying middleware, then two requests handled in
\* any interleaving
NextIsolation ==
  \/ AttachOf(RelayingMiddlewareLists)
  \/ CreateHandler
  \/ \E r \in Slots : IsoStart(r)
  \/ \E r \in Slots : IsoWrite(r)
  \/ \E r \in Slots : IsoRespond(r)

SpecIsolation == Init /\ [][NextIsolation]_vars

\* pipeline() as both of its callers use it: a behaviour is one of the
\* server (setup, then requests) or one of the client (assignments and calls)
ServerUntouched == spc = "setup" /\ attachCount = 0
ClientUntouched == cpc = "idle" /\ assignLog = <<>>

NextPipelines ==
  \/ ClientUntouched /\ Next
  \/ ServerUntouched /\ NextClient

SpecPipelines == Init /\ [][NextPipelines]_vars

(***************************************************************************)
(* Properties of the server handler.                                       *)
(***************************************************************************)
Done == spc = "done"

\* the request's path names an endpoint of the API definition
Resolved ==
  /\ req.path # <<>>
  /\ RouteTable[req.path].found
ReqRpcType == Descriptors[ReqNode].rpcType

\* the response was serialised by makeResponse (a result or validation issues)
Serialised == resp.body.kind \notin {"text", "rejected"}

\* the pipeline of the request resolved and its result was serialised
Succeeded == Done /\ ctxCreated = 1 /\ ret.kind = "value" /\ Serialised

\* C1: a request whose (method, rpcType of the resolved endpoint) is not one of
\* (GET, query), (GET, get), (POST, command) is answered 405, and neither the
\* context factory nor any middleware nor the implementation is invoked.
C1_MethodRpcGate ==
  (spc \in {"run", "done"} /\ Resolved
     /\ <<req.method, ReqRpcType>> \notin
          { <<"GET", "query">>, <<"GET", "get">>, <<"POST", "command">> })
  => /\ Done /\ resp.status = 405
     /\ ctxCreated = 0 /\ mwRuns = 0 /\ implRuns = 0 /\ trace = <<>>

C1_Witness ==
  /\ Done /\ Resolved /\ req.method = "POST" /\ ReqRpcType = "query"
  /\ mwAttached # <<>> /\ resp.status = 405

\* C2, as claimed: a POST to a command endpoint whose Content-Type names none
\* of multipart/form-data, application/json, application/msgpack is answered
\* 415, its body is not decoded and the implementation is not invoked.
C2_UnsupportedMediaType ==
  (Done /\ Resolved /\ req.method = "POST" /\ ReqRpcType = "command"
     /\ req.ctype # Unread
     /\ req.ctype \cap { "multipart/form-data", "application/json",
                         "application/msgpack" } = {})
  => resp.status = 415 /\ ~bodyRead /\ implRuns = 0

\* C3, as claimed: whatever the middleware do with next(), the implementation
\* has run exactly once when the request is answered successfully without a
\* short-circuit, and zero times when some middleware short-circuits.
C3_ImplOnceWhateverMiddlewareDo ==
  /\ (Succeeded /\ ~shortCut) => implRuns = 1
  /\ (Done /\ shortCut) => implRuns = 0

\* C3, amended: the implementation has run exactly once when the request is
\* answered successfully, every middleware invocation called next() exactly
\* once and the schema accepted the arguments; it has run zero times when some
\* middleware short-circuits and no middleware called next() more than once.
C3_ImplOncePerNext ==
  /\ (Succeeded /\ nextCounts \subseteq {1} /\ zodRejects = 0) => implRuns = 1
  /\ (Done /\ shortCut /\ nextCounts \subseteq {0, 1}) => implRuns = 0

C3_Witness ==
  /\ Succeeded /\ Len(chain) = 3 /\ nextCounts = {1} /\ zodRejects = 0
  /\ implRuns = 1

\* C5, as claimed: when the endpoint's schema rejects the arguments, the
\* implementation is not invoked and the response has status 422, the header
\* X-Tango-Validation-Error: true, cache directive 0 (no Cache-Control) and
\* the issues as its body.
C5_SchemaRejection ==
  (Done /\ zodRejects > 0)
  => /\ implRuns = 0
     /\ resp.status = 422
     /\ HeadersHas(resp.headers, "X-Tango-Validation-Error")
     /\ resp.headers[HeaderName("X-Tango-Validation-Error")] = "true"
     /\ sctx.cache = 0
     /\ ~HeadersHas(resp.headers, "Cache-Control")
     /\ resp.body.val = "issues"

\* C5, amended: the same, when the schema's failure reaches the handler, that
\* is when no middleware catches it on the way up.
C5_SchemaRejectionUncaught ==
  (Done /\ zodRejects > 0 /\ ret = Failure("ZodError"))
  => /\ implRuns = 0
     /\ resp.status = 422
     /\ HeadersHas(resp.headers, "X-Tango-Validation-Error")
     /\ resp.headers[HeaderName("X-Tango-Validation-Error")] = "true"
     /\ sctx.cache = 0
     /\ ~HeadersHas(resp.headers, "Cache-Control")
     /\ resp.body.val = "issues"

\* a middleware set status 201 and cache 60 before the schema rejected a GET
C5_Witness ==
  /\ Done /\ zodRejects = 1 /\ ret = Failure("ZodError")
  /\ req.method = "GET" /\ "setctx" \in Range(chain)
  /\ HeadersHas(resp.headers, "x-custom")
  /\ resp.status = 422

\* C6, as claimed: a response carries X-Tango-Validation-Error exactly when it
\* is a 422 caused by the endpoint's schema rejecting the arguments; a failure
\* raised by a middleware or by the implementation never produces it.
C6_HeaderOnlyOnSchemaRejection ==
  Done =>
    (HeadersHas(resp.headers, "X-Tango-Validation-Error")
       <=> (resp.status = 422 /\ zodRejects > 0 /\ implRuns = 0))

\* C6, amended: a response carries X-Tango-Validation-Error exactly when the
\* pipeline failed with a ZodError that reached the handler, whether the
\* schema or the implementation raised it; the response is then a 422.
C6_HeaderOnZodError ==
  Done =>
    /\ HeadersHas(resp.headers, "X-Tango-Validation-Error")
         <=> (ctxCreated = 1 /\ ret = Failure("ZodError"))
    /\ HeadersHas(resp.headers, "X-Tango-Validation-Error") => resp.status = 422

\* the implementation itself threw a ZodError
C6_Witness ==
  /\ Done /\ zodRejects = 0 /\ implRuns = 1 /\ ret = Failure("ZodError")
  /\ HeadersHas(resp.headers, "X-Tango-Validation-Error")

\* C7, as claimed: every response the handler returns has a Cache-Control
\* header exactly when the method is GET and the context's cache directive is
\* greater than 0.
C7_CacheControlEveryResponse ==
  Done =>
    (HeadersHas(resp.headers, "Cache-Control")
       <=> (req.method = "GET" /\ sctx.cache > 0))

\* C7, amended: every response serialised from the context (a result or the
\* validation issues) has Cache-Control: public, max-age=<seconds> exactly when
\* the method is GET and the cache directive is greater than 0; the plain-text
\* error responses never have it.
C7_CacheControlSerialised ==
  Done =>
    /\ HeadersHas(resp.headers, "Cache-Control")
         <=> (Serialised /\ req.method = "GET" /\ sctx.cache > 0)
    /\ HeadersHas(resp.headers, "Cache-Control")
         => resp.headers[HeaderName("Cache-Control")]
              = "public, max-age=" \o ToString(sctx.cache)

C7_Witness ==
  /\ Done /\ req.method = "GET" /\ sctx.cache = 60 /\ Serialised
  /\ resp.headers[HeaderName("Cache-Control")] = "public, max-age=60"

\* C8, as claimed: every response the handler returns carries
\* X-Tango-Execution-Time.
C8_ExecutionTimeEveryResponse ==
  Done => HeadersHas(resp.headers, "X-Tango-Execution-Time")

\* C10, as claimed: the URL tail the client produces for the call path of an
\* endpoint is an identifier the server resolves to that endpoint.
C10_RouteAgreement ==
  \A e \in Endpoints :
    (Done /\ req.method \in acceptedMethods /\ req.path = ClientPathString(e))
    => (Resolved /\ ReqNode = e /\ resp.status # 404)

\* the pipeline of the request failed with something that is no ZodError
FailedOtherwise ==
  Done /\ ctxCreated = 1 /\ ret.kind = "error" /\ ret.val # "ZodError"

\* C12, as claimed: when a failure other than a validation failure reaches the
\* handler, the response has status 500 and an empty body, whatever status,
\* cache directive or headers were set on the context.
C12_FailureEmptyBody ==
  FailedOtherwise =>
    /\ resp.status = 500
    /\ resp.body.kind = "none"

\* C12, amended: the response then has status 500 and the fixed plain-text
\* body "Internal server error", and nothing of the context (status, cache
\* directive, response headers) appears in it.
C12_FailureFixedBody ==
  FailedOtherwise =>
    /\ resp.status = 500
    /\ resp.body = [kind |-> "text", val |-> "Internal server error"]
    /\ DOMAIN resp.headers = { HeaderName("Content-Type") }
    /\ resp.headers[HeaderName("Content-Type")] = "text/plain;charset=UTF-8"

\* a middleware set status 201, cache 60 and a header, then the
\* implementation threw
C12_Witness ==
  /\ FailedOtherwise /\ implRuns = 1 /\ ret = Failure("Error")
  /\ sctx.status = 201 /\ sctx.cache = 60 /\ HeadersHas(sctx.headers, "x-custom")
  /\ req.method = "GET" /\ resp.status = 500

\* the first stage of the chain is a middleware of the given behaviour
FirstIs(beh) == Len(chain) >= 2 /\ chain[1] = beh

\* the body a client asking for MessagePack decodes to v
MsgpackOf(v) == [kind |-> "msgpack", val |-> v]

\* C13: the value serialised as the response body is the value the first
\* stage of the chain returned; a first middleware that awaits next() and
\* returns nothing makes the body undefined although the implementation ran,
\* and one that returns its own value without calling next() makes that value
\* the body and the implementation does not run.
C13_BodyIsFirstStageValue ==
  Succeeded =>
    /\ resp.body.kind # "none" => resp.body.val = ret.val
    /\ resp.body.kind = "none" =>
         (ret.val = "undefined" /\ Includes(req.accept, "application/json"))
    /\ (FirstIs("drop") /\ ~Includes(req.accept, "application/json"))
         => resp.body = MsgpackOf("undefined")
    /\ (FirstIs("drop") /\ Len(chain) = 2) => implRuns = 1
    /\ FirstIs("short")
         => (resp.body.val = "mwValue" /\ implRuns = 0 /\ mwRuns = 1)

\* the implementation returned its result and the middleware dropped it
C13_Witness ==
  /\ Succeeded /\ chain = <<"drop", "terminal">> /\ implRuns = 1
  /\ trace = <<Enter(1), Enter(2), Leave(2), Leave(1)>>
  /\ resp.body = MsgpackOf("undefined") /\ resp.status = 200

(***************************************************************************)
(* Properties of the client.                                               *)
(***************************************************************************)
InCall == cpc \in {"run", "net", "body", "lost", "settled"}
Settled == cpc = "settled"

\* what the assignments of the log registered under a key, in order
RECURSIVE LogAt(_, _)
LogAt(log, key) ==
  IF log = <<>> THEN <<>>
  ELSE (IF Head(log).key = key THEN Head(log).items ELSE <<>>)
         \o LogAt(Tail(log), key)

\* the middleware registered under the prefixes of length i.. of the path
RECURSIVE LogAlong(_, _, _)
LogAlong(log, path, i) ==
  IF i > Len(path) THEN <<>>
  ELSE LogAt(log, Join(MapKebab(SubSeq(path, 1, i)), "."))
         \o LogAlong(log, path, i + 1)

\* the stages a call at the path has, given the assignments made before it
ExpectedStages(log, path) ==
  LogAt(log, <<>>) \o LogAlong(log, path, 1) \o <<Transport>>

\* replaying a trace: the number of stages entered and not left, or -1 when
\* a stage is entered while its predecessor is not the innermost active one,
\* or left while a later stage is still active
RECURSIVE Replay(_, _)
Replay(tr, depth) ==
  IF tr = <<>> THEN depth
  ELSE IF Head(tr).ev = "enter"
    THEN IF Head(tr).idx = depth + 1 THEN Replay(Tail(tr), depth + 1) ELSE -1
    ELSE IF Head(tr).idx = depth THEN Replay(Tail(tr), depth - 1) ELSE -1

WellNested(tr) == Replay(tr, 0) >= 0

\* a middleware is resuming from a next() that resolved
Resumed ==
  /\ cpc = "run" /\ stack # <<>>
  /\ Top(stack).phase = "await" /\ ret.kind = "value"

\* C4, as claimed: the stages of a call are the middleware registered under
\* "", then under each prefix of the path up to the full path, in registration
\* order within a key, then the transport; they are entered in that order and
\* left in the reverse order; every middleware whose awaited next() resolved
\* sees ctx.result assigned.
C4_OrderAndResultAlways ==
  InCall =>
    /\ chain = ExpectedStages(SubSeq(assignLog, 1, call.logLen), call.path)
    /\ WellNested(trace)
    /\ Resumed => cctx.resultSets > 0

\* C4, amended: the same order of stages, entered in order and left in reverse
\* order; a middleware whose awaited next() resolved sees ctx.result assigned
\* when the stages below it relayed next() down to the transport (none
\* returned without calling next() or replaced the outcome of its next()).
C4_OrderAndResultWhenRelayed ==
  InCall =>
    /\ chain = ExpectedStages(SubSeq(assignLog, 1, call.logLen), call.path)
    /\ WellNested(trace)
    /\ (Resumed /\ relayed) => cctx.resultSets > 0

\* the global middleware was registered after the one of the full path, and
\* runs before it
C4_Witness ==
  /\ Settled /\ call.path = <<NUsers, NGetProfile>>
  /\ Len(assignLog) = 2
  /\ assignLog[1].key = ClientPathString(<<NUsers, NGetProfile>>)
  /\ chain = <<Mw(2, 1), Mw(1, 1), Transport>>
  /\ trace = <<Enter(1), Enter(2), Enter(3), Leave(3), Leave(2), Leave(1)>>
  /\ relayed /\ cctx.resultSets = 1

\* C9, as claimed: when the signal of a call is aborted before the call starts
\* or at any moment before its promise settles, the promise rejects with an
\* AbortError and ctx.result is never assigned.
C9_AbortAnyMoment ==
  (Settled /\ signal.aborted)
  => (outcome = Failure("AbortError") /\ cctx.resultSets = 0)

\* the call settled as if its signal had not been aborted: with what the
\* response decodes to
SettledAsUnaborted ==
  LET d == DecodeResponse(net.status, net.body) IN
  /\ net.status # 0
  /\ IF d.kind = "error" THEN outcome = d /\ cctx.resultSets = 0
     ELSE outcome.kind = "value" /\ cctx.result = d.val

\* C9, amended: when the signal is aborted before the transport sends the
\* request or while the request is in flight, and the middleware relay
\* next(), the promise rejects with an AbortError and ctx.result is never
\* assigned; an abort once fetch has resolved and before the body of its
\* response has been read either does the same, or makes the call reject
\* with the TypeError of an unusable body (ctx.result is not assigned), or
\* has no effect on the call; an abort after the transport has the response
\* (XHR: after it has loaded) does not make the call fail with an AbortError.
C9_AbortBeforeResponse ==
  /\ (Settled /\ relayed /\ signal.at \in {"before", "inFlight"})
       => (outcome = Failure("AbortError") /\ cctx.resultSets = 0)
  /\ (Settled /\ relayed /\ signal.at = "readingBody")
       => \/ outcome = Failure("AbortError") /\ cctx.resultSets = 0
          \/ outcome = Failure("TypeError") /\ cctx.resultSets = 0
          \/ SettledAsUnaborted
  /\ (Settled /\ relayed /\ signal.at \in {"after", "loaded"})
       => outcome # Failure("AbortError")
  /\ signal.at = "stranded" => cpc = "lost"

C9_Witness ==
  /\ Settled /\ signal.at = "inFlight" /\ relayed
  /\ Len(chain) = 3 /\ net.sent = 1
  /\ outcome = Failure("AbortError") /\ cctx.resultSets = 0

(***************************************************************************)
(* Properties of the keys and of the request on the wire.                  *)
(***************************************************************************)
IsPrefix(p, q) == Len(p) <= Len(q) /\ SubSeq(q, 1, Len(p)) = p

\* a lower camel case identifier: a lower-case letter first, letters and
\* digits only, no two upper-case letters in a row
PlainCamel(name) ==
  /\ Len(name) >= 1 /\ IsLower(name[1])
  /\ \A i \in 1..Len(name) : IsLower(name[i]) \/ IsUpper(name[i]) \/ IsDigit(name[i])
  /\ \A i \in 1..(Len(name) - 1) : ~(IsUpper(name[i]) /\ IsUpper(name[i + 1]))

AllPlainCamel(path) == \A i \in 1..Len(path) : PlainCamel(path[i])

\* C11, as claimed: two different paths have different kebab-cased,
\* dot-joined keys, and a middleware registered for one path is among the
\* stages of a call only when the call's path is that path or below it.
C11_KeysDistinctEveryDefinition ==
  wpc = "keys" =>
    /\ wkeys.reg # wkeys.at => wkeys.regTail # wkeys.tail
    /\ wkeys.stages # <<>> => IsPrefix(wkeys.reg, wkeys.at)

\* C11, amended: the same for paths whose names are lower camel case
\* identifiers without two upper-case letters in a row (userId and userID, for
\* one, share the key user-id).
C11_KeysDistinctPlainCamel ==
  (wpc = "keys" /\ AllPlainCamel(wkeys.reg) /\ AllPlainCamel(wkeys.at)) =>
    /\ wkeys.reg # wkeys.at => wkeys.regTail # wkeys.tail
    /\ wkeys.stages # <<>> => IsPrefix(wkeys.reg, wkeys.at)

\* two paths that differ in the case of one letter: different keys, and the
\* middleware of the one is not a stage of the other
C11_Witness ==
  /\ wpc = "keys"
  /\ wkeys.reg = <<NUsers, NGetprofile>> /\ wkeys.at = <<NUsers, NGetProfile>>
  /\ wkeys.regTail # wkeys.tail /\ wkeys.stages = <<>>

\* undefined, as a value returned or as a property never assigned
IsUndefined(v) == v \in { "undefined", "unset" }

\* C14, as claimed: if a client middleware awaits next() and does not return
\* its result, the caller of $query/$command/$get receives undefined.
C14_DroppedResultIsLost ==
  (Settled /\ call.variant = "result" /\ dropped /\ outcome.kind = "value")
  => IsUndefined(outcome.val)

\* the transport had a response whose body was read to the end
ResponseRead ==
  /\ net.status # 0
  /\ signal.at \in { "never", "after", "loaded" }
  /\ cctx.resultSets > 0 \/ DecodeResponse(net.status, net.body).kind = "error"

\* C15: a call whose pipeline rejected rejects with that same failure; a call
\* whose pipeline resolved resolves to its context (the _ctx variants) or to
\* ctx.result as it stands, whatever value the pipeline resolved to.  When
\* every middleware relayed next(), the failure is the one the transport
\* raised and ctx.result is the decoded response.
C15_CallOutcome ==
  Settled =>
    /\ ret.kind = "error" => outcome = ret
    /\ (ret.kind = "value" /\ call.variant = "ctx") => outcome = Value("ctx")
    /\ (ret.kind = "value" /\ call.variant = "result")
         => outcome = Value(cctx.result)
    /\ (relayed /\ ResponseRead)
         => LET d == DecodeResponse(net.status, net.body) IN
            IF d.kind = "error" THEN outcome = d
            ELSE outcome = (IF call.variant = "ctx" THEN Value("ctx") ELSE d)

\* a 422 with issues went up through two middleware to the caller
C15_Witness ==
  /\ Settled /\ Len(chain) = 3 /\ relayed /\ net.status = 422
  /\ outcome = Failure("ServerErrorWithData") /\ cctx.resultSets = 0

\* a request a tango client built is on the wire
Built == wpc \in { "built", "parsed" } /\ ~wcall.foreign

FileHandle(v) == v.ty = "file"

\* the keys of the object the request packs
PackedKeys ==
  IF unpack(wreq.packed).ok THEN DOMAIN ArgsOfValue(unpack(wreq.packed).val)
  ELSE {}

NonEmptyFileList(v) ==
  v.ty = "list" /\ v.items # <<>> /\ \A x \in Range(v.items) : x.ty = "file"

\* C16: in a command call an argument is moved from args to the uploads
\* exactly when it is a single file or a non-empty list of files only; mixed
\* lists, empty lists and other values stay in args; in query and get calls
\* nothing is moved.  The request is a multipart upload exactly when something
\* was moved, and the args it packs are the ones that stayed.
C16_FileExtraction ==
  Built =>
    LET moved == Range(wreq.uploads)
        kept == Range(wreq.argsLeft)
        all == Range(wcall.args)
    IN /\ moved \cup kept = all /\ moved \cap kept = {}
       /\ Len(wreq.uploads) + Len(wreq.argsLeft) = Len(wcall.args)
       /\ wcall.rpcType = "command" =>
            \A e \in all : e \in moved <=> (FileHandle(e.v) \/ NonEmptyFileList(e.v))
       /\ wcall.rpcType # "command" => moved = {}
       /\ wreq.type = "UPLOAD" <=> moved # {}
       /\ (wreq.packed = <<>>) <=>
            (wreq.type = "GET" \/ (kept = {} /\ wreq.type # "COMMAND"))
       /\ wreq.packed # <<>> =>
            (unpack(wreq.packed).ok /\ PackedKeys = { e.k : e \in kept })

\* a list of two files is moved, a list of a file and a string stays
C16_Witness ==
  /\ Built /\ wcall.rpcType = "command"
  /\ wcall.args = << Pair(KNote, List(<<File("f1"), Str("x")>>)),
                     Pair(KFiles, List(<<File("f1"), File("f2")>>)) >>
  /\ wreq.uploads = << Pair(KFiles, List(<<File("f1"), File("f2")>>)) >>
  /\ wreq.argsLeft = << Pair(KNote, List(<<File("f1"), Str("x")>>)) >>
  /\ wreq.type = "UPLOAD"

\* the server parsed the request a tango client built
ParsedBuilt == wpc = "parsed" /\ ~wcall.foreign

\* a value MessagePack represents: no file handle in it
RECURSIVE IsData(_)
IsData(v) ==
  CASE v.ty = "file" -> FALSE
    [] v.ty = "list" -> \A i \in 1..Len(v.items) : IsData(v.items[i])
    [] OTHER -> TRUE

\* what a value is once packed and unpacked: itself, a file handle being
\* an empty object, also inside a list
RECURSIVE Repacked(_)
Repacked(value) ==
  CASE value.ty = "file" -> EmptyObject
    [] value.ty = "list" ->
         List([i \in 1..Len(value.items) |-> Repacked(value.items[i])])
    [] OTHER -> value

\* what holds of the request of every query call
QueryRequestShape ==
  /\ wreq.method = "GET" /\ wreq.body = <<>> /\ wreq.form = <<>>
  /\ wcall.args = <<>> => (wreq.search = <<>> /\ wsrv.args = EmptyArgs)
  /\ wcall.args # <<>> =>
       (Len(wreq.search) = 1 /\ wreq.search[1].k = KArgs
          /\ Range(wreq.search[1].v) \cap { "+", "/", "=" } = {})

\* C17, as claimed: for a query call with args a, the args the server parses
\* from the request the client builds equal a; a call with no args sends no
\* args parameter and the server parses {}.
C17_QueryRoundTripAnyArgs ==
  (ParsedBuilt /\ wcall.rpcType = "query") =>
    /\ wsrv.ok
    /\ DOMAIN wsrv.args = { e.k : e \in Range(wcall.args) }
    /\ \A e \in Range(wcall.args) : wsrv.args[e.k] = e.v
    /\ QueryRequestShape

\* C17, amended: for a query call with args a, the server parses an object
\* with the keys of a; an argument that is MessagePack data (a string, a
\* number, null, undefined, a list of these) arrives as it was, and a file
\* handle, alone or in a list, arrives as an empty object.  The request
\* carries the args parameter, in the URL-safe alphabet and without
\* padding, exactly when a has an entry, and with no args the server parses
\* {}.
C17_QueryRoundTrip ==
  (ParsedBuilt /\ wcall.rpcType = "query") =>
    /\ wsrv.ok
    /\ DOMAIN wsrv.args = { e.k : e \in Range(wcall.args) }
    /\ \A e \in Range(wcall.args) :
         /\ IsData(e.v) => wsrv.args[e.k] = e.v
         /\ wsrv.args[e.k] = Repacked(e.v)
    /\ QueryRequestShape

\* two args of text; the packed bytes need both - and _ and padding, which
\* is not sent
C17_Witness ==
  /\ ParsedBuilt /\ wcall.rpcType = "query"
  /\ wcall.args = << Pair(KNote, Str(">>?")), Pair(KFilesB, Str(">>?")) >>
  /\ Len(wreq.packed) % 3 = 1
  /\ { "-", "_" } \subseteq Range(wreq.search[1].v)
  /\ wsrv.ok /\ wsrv.args = (KNote :> Str(">>?")) @@ (KFilesB :> Str(">>?"))

\* the args of a call that are neither undefined nor null
Defined(args) == { e \in Range(args) : e.v.ty \notin { "undefined", "null" } }

\* C18: for a get call the server parses exactly the client args that are
\* neither undefined nor null, each as the string String(value) gives (a
\* number arrives as its digits, as a string); when a key occurs more than
\* once in the URL the server keeps the last value.
C18_GetArgs ==
  /\ (ParsedBuilt /\ wcall.rpcType = "get") =>
       /\ wsrv.ok
       /\ DOMAIN wsrv.args = { e.k : e \in Defined(wcall.args) }
       /\ \A e \in Defined(wcall.args) :
            /\ wsrv.args[e.k].ty = "str"
            /\ wsrv.args[e.k].v = StringOf(e.v)
            /\ e.v = Num("2") => wsrv.args[e.k] = Str("2")
            /\ e.v = File("f1") => wsrv.args[e.k] = Str("[object File]")
            /\ e.v = List(<<>>) => wsrv.args[e.k] = Str("")
       /\ wreq.method = "GET" /\ wreq.body = <<>> /\ wreq.form = <<>>
  /\ (wpc = "parsed" /\ wcall.foreign /\ wcall.rpcType = "get") =>
       /\ wsrv.ok
       /\ DOMAIN wsrv.args = { wreq.search[i].k : i \in 1..Len(wreq.search) }
       /\ \A i \in 1..Len(wreq.search) :
            (\A j \in (i + 1)..Len(wreq.search) : wreq.search[j].k # wreq.search[i].k)
            => wsrv.args[wreq.search[i].k] = Str(wreq.search[i].v)

\* a number and a null: the number arrives as a string, the null not at all
C18_Witness ==
  /\ ParsedBuilt /\ wcall.rpcType = "get"
  /\ wcall.args = << Pair(KNote, Num("2")), Pair(KFiles, Nul) >>
  /\ wreq.search = << Pair(KNote, "2") >>
  /\ wsrv.args = (KNote :> Str("2"))

\* the server parsed the multipart request of a command call with uploads
ParsedUpload == ParsedBuilt /\ wcall.rpcType = "command" /\ wreq.type = "UPLOAD"

WithoutBrackets(key) ==
  IF EndsWithBrackets(key) THEN SubSeq(key, 1, Len(key) - 2) ELSE key

\* args[key] is there and is the value
Arrives(key, value) == key \in DOMAIN wsrv.args /\ wsrv.args[key] = value

\* the first occurrence of a repeated plain key of a foreign form (one
\* without an args blob) is kept
FirstOccurrenceKept ==
  (/\ wpc = "parsed" /\ wcall.foreign /\ wreq.type = "UPLOAD"
   /\ ~IsBlob(FormGet(wreq.form, KArgs))) =>
    /\ wsrv.ok
    /\ \A i \in 1..Len(wreq.form) :
         (/\ ~EndsWithBrackets(wreq.form[i].k)
          /\ \A j \in 1..(i - 1) : wreq.form[j].k # wreq.form[i].k)
         => Arrives(wreq.form[i].k, wreq.form[i].v)

\* C19, as claimed: for a command call with uploads the server's parsed args
\* contain every non-file argument with its value, every single-file argument
\* under its own name and every file-list argument under its name without the
\* [] suffix as the sequence of its files; a repeated form key without []
\* suffix keeps its first occurrence.
C19_MultipartRoundTrip ==
  /\ ParsedUpload =>
       /\ wsrv.ok
       /\ \A e \in Range(wreq.argsLeft) : IsData(e.v) => Arrives(e.k, e.v)
       /\ \A e \in Range(wreq.uploads) :
            IF IsFile(e.v) THEN Arrives(e.k, e.v)
            ELSE Arrives(WithoutBrackets(e.k), e.v)
  /\ FirstOccurrenceKept

\* the name under which the server stores an argument of the call
ArrivalName(e) ==
  IF IsFile(e.v) \/ NonEmptyFileList(e.v) THEN WithoutBrackets(e.k) ELSE e.k

\* no upload is named args, no two arguments arrive under one name, and the
\* caller gave no Content-Type of its own (it would replace the multipart
\* one)
PlainUploadNames ==
  /\ ~HeadersHas(wcall.headers.h, "content-type")
  /\ \A e \in Range(wreq.uploads) : e.k # KArgs
  /\ \A i \in 1..Len(wcall.args), j \in 1..Len(wcall.args) :
       i # j => ArrivalName(wcall.args[i]) # ArrivalName(wcall.args[j])

\* C19, what the code does guarantee: when no upload is named args, no two
\* arguments arrive under one name and the request goes out as multipart
\* form data, the parsed args are exactly: every non-file argument with
\* its value, every single-file argument whose name does not end in [] under
\* its own name, every single-file argument whose name ends in [] as a list of
\* that one file under the name without the suffix, and every file-list
\* argument under its name without the [] suffix as the sequence of its files;
\* a repeated form key without [] suffix keeps its first occurrence.
C19_MultipartRoundTripPlainNames ==
  /\ (ParsedUpload /\ PlainUploadNames) =>
       /\ wsrv.ok
       /\ DOMAIN wsrv.args = { ArrivalName(e) : e \in Range(wcall.args) }
       /\ \A e \in Range(wreq.argsLeft) : IsData(e.v) => Arrives(e.k, e.v)
       /\ \A e \in Range(wreq.uploads) :
            IF IsFile(e.v)
              THEN IF EndsWithBrackets(e.k)
                     THEN Arrives(WithoutBrackets(e.k), List(<<e.v>>))
                     ELSE Arrives(e.k, e.v)
              ELSE Arrives(WithoutBrackets(e.k), e.v)
  /\ FirstOccurrenceKept

\* a list of two files under files and a note: the parts are files[], twice
C19_Witness ==
  /\ ParsedUpload
  /\ wcall.args = << Pair(KFiles, List(<<File("f1"), File("f2")>>)),
                     Pair(KNote, Str("x")) >>
  /\ Len(wreq.form) = 3
  /\ wreq.form[2] = Pair(KFilesB, File("f1")) /\ wreq.form[3] = Pair(KFilesB, File("f2"))
  /\ wsrv.args = (KFiles :> List(<<File("f1"), File("f2")>>)) @@ (KNote :> Str("x"))

\* the step in which the transport stage read the body to its end
BodyWasRead == cpc = "body" /\ cpc' = "run" /\ signal' = signal

\* the transport stage settles with r; a value is also assigned to ctx.result,
\* a failure leaves the context as it was
TransportYields(r) ==
  /\ ret' = r
  /\ IF r.kind = "value"
       THEN cctx'.result = r.val /\ cctx'.resultSets = cctx.resultSets + 1
       ELSE cctx' = cctx

EmptyBody == net.body = "empty"

\* the step in which the request of the call is answered with a response
ResponseArrives == cpc = "net" /\ net'.status # 0

\* C20, as claimed: with an empty body the call yields null for 204, a server
\* error for a non-OK status and an unexpected-empty-response error for any
\* other OK status; with any non-empty body it yields the decoded value for an
\* OK status and a server error carrying response and data for a non-OK
\* status; a failing case does not assign ctx.result.  A response that
\* arrived is handed to the call, which then reads its body.
C20_DecodingEveryBody ==
  [][/\ ResponseArrives => cpc' = "body" /\ cctx'.response = net'.status
     /\ BodyWasRead =>
       /\ (EmptyBody /\ net.status = 204) => TransportYields(Value("null"))
       /\ (EmptyBody /\ ~ResponseOk(net.status))
            => TransportYields(Failure("ServerError"))
       /\ (EmptyBody /\ ResponseOk(net.status) /\ net.status # 204)
            => TransportYields(Failure("UnexpectedEmptyResponse"))
       /\ (~EmptyBody /\ ResponseOk(net.status))
            => TransportYields(Value("data"))
       /\ (~EmptyBody /\ ~ResponseOk(net.status))
            => TransportYields(Failure("ServerErrorWithData"))]_vars

\* the caller gave an Accept header in options.headers
CallerAccept == wcall.headers.given /\ HeadersHas(wcall.headers.h, "accept")

\* the caller gave a Content-Type header in options.headers
CallerContentType ==
  wcall.headers.given /\ HeadersHas(wcall.headers.h, "content-type")

\* every header the caller gave, Accept aside, is sent as given, but for the
\* Content-Type of a command without uploads, which is application/msgpack
CallerHeadersKept ==
  /\ \A n \in DOMAIN wcall.headers.h :
       (n # "accept" /\ ~(n = "content-type" /\ wreq.type = "COMMAND"))
         => n \in DOMAIN wreq.headers /\ wreq.headers[n] = wcall.headers.h[n]
  /\ wreq.type = "COMMAND" =>
       (wreq.headers["content-type"] = "application/msgpack"
          /\ wreq.ctype = { "application/msgpack" })
  /\ (CallerContentType /\ wreq.type # "COMMAND") =>
       wreq.ctype = { wcall.headers.h["content-type"] }

\* C21, as claimed: the request carries Accept: application/msgpack unless
\* the caller gave an Accept value in options.headers, and then the caller's
\* value is the one sent.
C21_AcceptCallerWins ==
  Built =>
    /\ HeadersHas(wreq.headers, "accept")
    /\ wreq.headers["accept"] =
         (IF CallerAccept THEN wcall.headers.h["accept"] ELSE "application/msgpack")

\* C21, amended: the request a call hands to the transport carries
\* Accept: application/msgpack whether or not the caller gave an Accept value
\* in options.headers (the caller's value is overwritten); the caller's other
\* headers are sent as given, except that a command without uploads is sent
\* with Content-Type: application/msgpack whatever Content-Type the caller
\* gave (in a get, a query and an upload the caller's Content-Type is sent).
C21_AcceptAlwaysMsgpack ==
  Built =>
    /\ HeadersHas(wreq.headers, "accept")
    /\ wreq.headers["accept"] = "application/msgpack"
    /\ CallerHeadersKept

\* the caller asked for JSON and the request asks for MessagePack
C21_Witness ==
  /\ Built /\ CallerAccept /\ wcall.headers.h["accept"] = "application/json"
  /\ wreq.headers["accept"] = "application/msgpack"
  /\ wreq.headers["x-custom-header"] = "value"

\* the key the claim gives an assignment: the kebab-joined prefix for $, the
\* kebab-joined prefix + child for a named child
ClaimedKey(e) ==
  Join(MapKebab(IF e.prop = Dollar THEN e.path ELSE e.path \o <<e.prop>>), ".")

\* everything assigned to the key, in assignment order
RECURSIVE AssignedTo(_, _)
AssignedTo(log, key) ==
  IF log = <<>> THEN <<>>
  ELSE (IF ClaimedKey(Head(log)) = key THEN Head(log).items ELSE <<>>)
         \o AssignedTo(Tail(log), key)

ClaimedKeys == { ClaimedKey(t) : t \in CfgTargets }

\* C22: after any sequence of cfg assignments the list stored at a key is the
\* concatenation, in assignment order, of everything assigned to that key
\* (the kebab-joined prefix for $, "" for cfg.$, prefix + child for a named
\* child), and no other key holds a list.
C22_Registration ==
  /\ DOMAIN mwMap = { ClaimedKey(assignLog[i]) : i \in 1..Len(assignLog) }
  /\ \A key \in ClaimedKeys : MapGet(mwMap, key) = AssignedTo(assignLog, key)

\* cfg.users = m1, then cfg.users.$ = m2: both are stored under users, m1 first
C22_Witness ==
  /\ Len(assignLog) = 2
  /\ assignLog[1].path = <<>> /\ assignLog[1].prop = NUsers
  /\ assignLog[2].path = <<NUsers>> /\ assignLog[2].prop = Dollar
  /\ mwMap = (ClientPathString(<<NUsers>>) :> <<Mw(1, 1), Mw(2, 1)>>)

PipelineExhausted == Failure("PipelineExhausted")

\* C23: no stage of a server request or of a client call is ever handed the
\* pipeline-exhausted failure, and no call settles with it, whether the
\* middleware call next() zero times, once or several times.
C23_NeverExhausted ==
  /\ ret # PipelineExhausted
  /\ outcome # PipelineExhausted

\* a server middleware called next() twice: the implementation ran twice
\* and the request was answered with its result
C23_Witness ==
  /\ Done /\ 2 \in nextCounts /\ implRuns = 2 /\ stack = <<>>
  /\ ret = Value("implResult") /\ resp.status = 200

\* a three-digit status code, 100 to 599
ValidHttpStatus(code) == code \in 100..599

\* the status codes by the names of their reason phrases (415 is the code
\* the documentation of the shortcuts gives badContent)
CanonicalCode(name) ==
  CASE name = "continue" -> 100 [] name = "switchingProtocols" -> 101
    [] name = "processing" -> 102 [] name = "ok" -> 200
    [] name = "created" -> 201 [] name = "accepted" -> 202
    [] name = "noContent" -> 204 [] name = "resetContent" -> 205
    [] name = "partialContent" -> 206 [] name = "multipleChoices" -> 300
    [] name = "movedPermanently" -> 301 [] name = "found" -> 302
    [] name = "seeOther" -> 303 [] name = "notModified" -> 304
    [] name = "temporaryRedirect" -> 307 [] name = "permanentRedirect" -> 308
    [] name = "badRequest" -> 400 [] name = "unauthorized" -> 401
    [] name = "paymentRequired" -> 402 [] name = "forbidden" -> 403
    [] name = "notFound" -> 404 [] name = "methodNotAllowed" -> 405
    [] name = "notAcceptable" -> 406 [] name = "conflict" -> 409
    [] name = "gone" -> 410 [] name = "lengthRequired" -> 411
    [] name = "preconditionFailed" -> 412 [] name = "payloadTooLarge" -> 413
    [] name = "uriTooLong" -> 414 [] name = "badContent" -> 415
    [] name = "rangeNotSatisfiable" -> 416 [] name = "expectationFailed" -> 417
    [] name = "tooManyRequests" -> 429 [] name = "serverError" -> 500
    [] name = "notImplemented" -> 501 [] name = "badGateway" -> 502
    [] name = "serviceUnavailable" -> 503 [] name = "gatewayTimeout" -> 504
    [] name = "httpVersionNotSupported" -> 505
    [] OTHER -> 0

\* C24, as claimed: whatever was written through status.set and the status
\* shortcuts, status.get() is a valid HTTP status code; it is 200 before any
\* write, and after a shortcut the canonical code of that shortcut.
C24_StatusAlwaysValid ==
  tctx.made =>
    /\ ValidHttpStatus(tctx.status)
    /\ tlast.status.op = "none" => tctx.status = 200
    /\ tlast.status.op \in ShortcutNames
         => tctx.status = CanonicalCode(tlast.status.op)

\* C24, amended: status.get() is 200 before any write; after status.set(code)
\* it is that code, whatever number it is; after a shortcut it is the
\* canonical code of that shortcut; so it is a valid HTTP status code unless
\* the last write was a status.set with an argument that is none.
C24_StatusIsLastWritten ==
  tctx.made =>
    /\ tlast.status.op = "none" => tctx.status = 200
    /\ tlast.status.op = "set" => tctx.status = tlast.status.arg
    /\ tlast.status.op \in ShortcutNames
         => tctx.status = CanonicalCode(tlast.status.op)
    /\ (tlast.status.op = "set" => ValidHttpStatus(tlast.status.arg))
         => ValidHttpStatus(tctx.status)

\* status.set(1000) was the last write: status.get() is 1000
C24_Witness ==
  /\ tctx.made /\ tlast.status = [op |-> "set", arg |-> 1000]
  /\ tctx.status = 1000 /\ ~ValidHttpStatus(tctx.status)

\* a number that is an integer and not negative
IsNonNegativeInteger(x) ==
  x.kind = "finite" /\ x.tenths >= 0 /\ x.tenths % 10 = 0

\* max(0, floor(n)) of a finite n: the greatest integer not above n, or 0
MaxZeroFloor(n) ==
  LET k == CHOOSE i \in -100..100 : 10 * i <= n.tenths /\ n.tenths < 10 * (i + 1)
  IN JsNum(IF k > 0 THEN 10 * k ELSE 0)

\* C25, as claimed: whatever was written through cache.set, the reset on a
\* validation failure included, cache.get() is a non-negative integer, equal
\* to max(0, floor(n)) of the last n written and 0 if nothing was written.
C25_CacheNonNegativeInteger ==
  tctx.made =>
    /\ IsNonNegativeInteger(tctx.cache)
    /\ ~tlast.cache.written => tctx.cache = JsNum(0)
    /\ (tlast.cache.written /\ tlast.cache.seconds.kind = "finite")
         => tctx.cache = MaxZeroFloor(tlast.cache.seconds)

\* C25, amended: cache.get() is 0 if nothing was written; after cache.set(n)
\* with a finite n, the reset on a validation failure included, it is the
\* non-negative integer max(0, floor(n)); after cache.set(NaN) it is NaN,
\* after cache.set(Infinity) Infinity and after cache.set(-Infinity) 0.
C25_CacheOfFiniteSeconds ==
  tctx.made =>
    /\ ~tlast.cache.written => tctx.cache = JsNum(0)
    /\ (tlast.cache.written /\ tlast.cache.seconds.kind = "finite")
         => /\ tctx.cache = MaxZeroFloor(tlast.cache.seconds)
            /\ IsNonNegativeInteger(tctx.cache)
    /\ (tlast.cache.written /\ tlast.cache.seconds.kind = "NaN")
         => tctx.cache = NaN
    /\ (tlast.cache.written /\ tlast.cache.seconds.kind = "Infinity")
         => tctx.cache = PosInfinity
    /\ (tlast.cache.written /\ tlast.cache.seconds.kind = "-Infinity")
         => tctx.cache = JsNum(0)

\* cache.set(1.9) gave 1 and, on another context, cache.set(-1.5) gave 0
C25_Witness ==
  /\ tctx.made /\ tlast.cache.written
  /\ \/ tlast.cache.seconds = JsNum(19) /\ tctx.cache = JsNum(10)
     \/ tlast.cache.seconds = JsNum(-15) /\ tctx.cache = JsNum(0)

\* C26: every request of a call whose options define onProgress goes through
\* XHR and none through fetch; every request of a call without onProgress
\* goes through fetch and none through XHR.
C26_ProgressSwitch ==
  /\ call.onProgress = "defined" => net.used \subseteq {"xhr"}
  /\ call.onProgress = "undefined" => net.used \subseteq {"fetch"}
  /\ call.onProgress = "unread" => net.used = {}
  /\ net.sent > 0 => net.used # {}

\* a middleware called next() twice in a call with onProgress: two requests,
\* both through XHR
C26_Witness ==
  /\ Settled /\ call.onProgress = "defined" /\ net.sent = 2 /\ net.used = {"xhr"}

\* a request is being handled or has been answered
Arrived == spc \in {"read", "run", "done"}

\* the checks a request can fail, from the request alone
MethodAllowed == req.method \in {"GET", "POST"}
SlashPaths == [e \in Endpoints |-> SlashPath(e)]
RouteKnown == \E e \in Endpoints : req.path = SlashPaths[e]
RouteRpcType == Descriptors[CHOOSE e \in Endpoints : req.path = SlashPaths[e]].rpcType
Compatible ==
  \/ req.method = "GET" /\ RouteRpcType \in {"query", "get"}
  \/ req.method = "POST" /\ RouteRpcType = "command"
GatesPassed == MethodAllowed /\ RouteKnown /\ Compatible
ArgsParsed ==
  ParseArgs(RouteRpcType, req.ctype, req.body, req.argsParam, req.search).ok
NothingExecuted == mwRuns = 0 /\ implRuns = 0 /\ trace = <<>>
AnsweredText(status, text) ==
  Done /\ resp.status = status /\ resp.body = [kind |-> "text", val |-> text]

\* C27: a request is answered by the earliest check it fails, in the order
\* method gate (405), route lookup (404), method/rpc compatibility (405),
\* argument parsing; the body is not read unless the first three checks
\* passed; the context factory is invoked only after parsing succeeded, and
\* no stage runs before the context exists.
C27_StepOrder ==
  Arrived =>
    /\ ~MethodAllowed => AnsweredText(405, "Method not allowed")
    /\ (MethodAllowed /\ ~RouteKnown) => AnsweredText(404, "RPC method not found")
    /\ (MethodAllowed /\ RouteKnown /\ ~Compatible)
         => AnsweredText(405, RpcTypeNotAllowed(RouteRpcType, req.method))
    /\ ~GatesPassed => /\ ~bodyRead /\ req.body = UnreadBody /\ req.ctype = Unread
                       /\ ctxCreated = 0 /\ NothingExecuted
    /\ spc = "read" => GatesPassed /\ bodyRead /\ ctxCreated = 0 /\ NothingExecuted
    /\ (GatesPassed /\ ~ArgsParsed)
         => /\ spc = "read" \/ (Done /\ resp.status \in {400, 500})
            /\ ctxCreated = 0 /\ NothingExecuted
    /\ ctxCreated > 0 => GatesPassed /\ ArgsParsed /\ ctxCreated = 1
    /\ ~NothingExecuted => ctxCreated = 1

(***************************************************************************)
(* C28: the order of the stages of a server request.                       *)
(***************************************************************************)
\* what the calls so far attached to a node, in the order of the calls
AttachedOn(log, node) == IF node \in DOMAIN log THEN log[node] ELSE <<>>

\* the same for the nodes at p1, p1.p2, ... down to the full path
RECURSIVE AttachedAlong(_, _, _)
AttachedAlong(log, path, i) ==
  IF i > Len(path) THEN <<>>
  ELSE AttachedOn(log, SubSeq(path, 1, i)) \o AttachedAlong(log, path, i + 1)

ServerStages(log, path) ==
  AttachedOn(log, RootNode) \o AttachedAlong(log, path, 1) \o <<"terminal">>

\* the request passed the gates and the parsing: its pipeline was started
InPipeline == (spc = "run" \/ Done) /\ sctx.made

\* C28: the stages of a request resolved to the endpoint at p1..pn are the
\* middleware attached to the API root, then those attached to the node at
\* p1, then p1.p2, and so on down to the descriptor, each list in the order
\* of attachment (a call with an array of targets attaching to each of them),
\* and last the terminal stage; they are entered in that order. The lists
\* are those of the moment the request is routed: the stages are taken when
\* a request reaches the pipeline through the route lookup, are not changed
\* by an attachment made while the request is handled, and are entered in
\* the order of the list.
C28_ChainOrder ==
  [][/\ (spc = "idle" /\ spc' \in {"read", "run"})
          => chain' = ServerStages(attachLog, ReqNode')
     /\ (spc \in {"read", "run"} /\ spc' \in {"read", "run"})
          => chain' = chain
     /\ (spc = "run" /\ spc' = "done") => chain' = chain
     /\ InPipeline' => WellNested(trace')]_vars

\* a request to posts.create with one middleware on the root and one on the
\* descriptor: root first, descriptor second, terminal last
C28_Witness ==
  /\ Done /\ sctx.made /\ ReqNode = <<NPosts, NCreate>>
  /\ attachLog[RootNode] = <<"pass">>
  /\ attachLog[<<NPosts, NCreate>>] = <<"catch">>
  /\ chain = <<"pass", "catch", "terminal">>
  /\ trace = <<Enter(1), Enter(2), Enter(3), Leave(3), Leave(2), Leave(1)>>


(***************************************************************************)
(* C29: the chains after createHandler.                                    *)
(***************************************************************************)
\* the stages a request to the endpoint is given, with the lists as they
\* are (the path of an endpoint passes through no schema)
StagesOf(attached, endpoint) ==
  findRpcMethodDescriptor(endpoint, attached, {}).middlewares \o <<"terminal">>

\* createHandler has returned
HandlerCreated == spc # "setup"

\* C29, as claimed: once createHandler has returned, the chain of every
\* endpoint is fixed; no later step, an attachment to a node of the API tree
\* included, changes the stages a later request is given.
C29_ChainsFixedAtConstruction ==
  [][HandlerCreated =>
       \A e \in Endpoints : StagesOf(mwAttached', e) = StagesOf(mwAttached, e)]_vars


(***************************************************************************)
(* C30: two requests in flight together.                                   *)
(***************************************************************************)
\* what request r alone has written after its first steps
OwnStatus(r, step) == IF step >= 1 THEN StatusOf(r) ELSE 200
OwnCache(r, step) == IF step >= 2 THEN SecondsOf(r) ELSE 0
OwnHeaders(r, step) == IF step >= 3 THEN "x-request" :> Tag(r) ELSE NoHeaders
OwnEnv(r, step) == IF step >= 4 THEN "user" :> Str(Tag(r)) ELSE EmptyArgs
OwnArgs(r, step) ==
  IF step >= 5 THEN ("who" :> Str(Tag(r))) @@ ("extra" :> Str(Tag(r)))
  ELSE "who" :> Str(Tag(r))

\* the response headers of request r, as far as they come from user code
\* or from the cache directive
OwnResponseHeaders(r, step) ==
  LET h == HeadersSet(HeadersSet(OwnHeaders(r, step),
                                 "X-Tango-Execution-Time", "elapsed"),
                      "Content-Type", "application/msgpack")
  IN IF step >= 2
       THEN HeadersSet(h, "Cache-Control",
                       "public, max-age=" \o ToString(SecondsOf(r)))
       ELSE h

\* the context of request r shows the writes of r and no others
ContextIsOwn(r) ==
  LET c == slots[r].ctx
      step == slots[r].step
      view == ContextView(heap, c)
  IN /\ view.status = OwnStatus(r, step)
     /\ view.cache = OwnCache(r, step)
     /\ view.args = OwnArgs(r, step)
     /\ ContextEnv(heap, c) = OwnEnv(r, step)
     /\ view.headers = IF slots[r].pc = "done"
                         THEN OwnResponseHeaders(r, step)
                         ELSE OwnHeaders(r, step)

\* the response of request r shows the writes of r and no others
ResponseIsOwn(r) ==
  LET step == slots[r].step
      answer == slots[r].resp
  IN /\ answer.status = OwnStatus(r, step)
     /\ answer.headers = OwnResponseHeaders(r, step)
     /\ answer.body = [kind |-> "msgpack", val |-> Tag(r)]

\* the lists of the API tree hold what was attached, and nothing else
ListsAsAttached ==
  \A n \in AttachTargets : getMiddlewares(mwAttached, n) = attachLog[n]

\* C30: for any interleaving of two requests of one handler, the status,
\* cache directive, response headers, env and args read through the context
\* of a request, and its response, are what that request itself wrote and
\* nothing the other one wrote; and handling requests leaves the middleware
\* lists of the API tree as the attachments made them.
C30_RequestIsolation ==
  /\ \A r \in Slots :
       /\ slots[r].pc # "idle" => ContextIsOwn(r)
       /\ slots[r].pc = "done" => ResponseIsOwn(r)
  /\ ListsAsAttached

\* request 2 was started first and has made all its writes; request 1 was
\* started and answered meanwhile without a write of its own, with the
\* status and headers of a fresh context, below nodes that have middleware
C30_Witness ==
  /\ slots[2].pc = "run" /\ slots[2].step = Len(UserCalls)
  /\ slots[1].pc = "done" /\ slots[1].step = 0
  /\ slots[2].ctx < slots[1].ctx
  /\ ContextView(heap, slots[2].ctx).status = StatusOf(2)
  /\ slots[1].resp.status = 200
  /\ ~HeadersHas(slots[1].resp.headers, "x-request")
  /\ getMiddlewares(mwAttached, RootNode) # <<>>
  /\ getMiddlewares(mwAttached, <<NPosts>>) # <<>>


(***************************************************************************)
(* C31: parse failures.                                                    *)
(***************************************************************************)
\* the request passed the method, route and type checks
PastGates == Done /\ GatesPassed

\* the parser the handler's switch picks for the request
ParserOf ==
  CASE RouteRpcType = "get" -> "get"
    [] RouteRpcType = "query" -> "query"
    [] Includes(req.ctype, "multipart/form-data") -> "multipart"
    [] Includes(req.ctype, "application/json") -> "json"
    [] OTHER -> "msgpack"

\* the request carries arguments that are malformed for its parser
Malformed ==
  \/ ParserOf = "query" /\ req.argsParam.enc = "garbage"
  \/ ParserOf = "msgpack" /\ req.body.enc \notin {"empty", "msgpack", "unreadable"}
  \/ ParserOf = "json" /\ req.body.enc \notin {"empty", "json", "unreadable"}
  \/ ParserOf = "multipart" /\ req.body.enc \in FormsWithBadBlob

\* parsing raises another error: the body cannot be read, or it is no form
\* data although the Content-Type says so
OtherParseError ==
  \/ ParserOf \in {"msgpack", "json"} /\ req.body.enc = "unreadable"
  \/ ParserOf = "multipart" /\ req.body.enc \notin {"form"} \cup FormsWithBadBlob

ShortMessages ==
  { "Invalid msgpackr body", "Invalid JSON body", "Invalid JSON in args blob",
    "Invalid msgpack in args blob", "Unsupported args type: text/plain" }

Answered400 ==
  /\ resp.status = 400
  /\ resp.body.kind = "text" /\ resp.body.val \in ShortMessages

NothingRan == ~sctx.made /\ ctxCreated = 0 /\ mwRuns = 0 /\ implRuns = 0

\* C31, as claimed: malformed arguments are answered 400 with a short
\* message, any other error raised while parsing is answered 500, and in
\* both cases no context is made and no middleware or implementation runs.
C31_ParseFailures ==
  PastGates =>
    /\ Malformed => Answered400 /\ NothingRan
    /\ OtherParseError => resp.status = 500 /\ NothingRan

\* C31, amended: as claimed, except that a body whose read fails is answered
\* 400 like a malformed one when it is read as msgpack or as JSON; the errors
\* answered 500 are those of a multipart request whose body is no form data
\* or cannot be read.
C31_ParseFailuresByParser ==
  PastGates =>
    /\ Malformed => Answered400 /\ NothingRan
    /\ (OtherParseError /\ ParserOf = "multipart") =>
         resp.status = 500 /\ NothingRan
    /\ (OtherParseError /\ ParserOf # "multipart") => Answered400 /\ NothingRan

\* a multipart command whose args blob is of type text/plain was answered
\* 400, below middleware that never ran
C31_Witness ==
  /\ PastGates /\ ReqNode = <<NPosts, NCreate>>
  /\ Includes(req.ctype, "multipart/form-data")
  /\ req.body.enc = "formBlobUnsupported"
  /\ resp = TextResponse(400, "Unsupported args type: text/plain")
  /\ getMiddlewares(mwAttached, RootNode) # <<>>
  /\ NothingRan


(***************************************************************************)
(* C32: validation in the terminal stage.                                  *)
(***************************************************************************)
ReqSchema == Descriptors[ReqNode].zodSchema

\* the terminal stage has run for the request
TerminalRan == implRuns + zodRejects > 0

\* every middleware of the chain was entered before the terminal stage was
FirstEnter(i) ==
  CHOOSE k \in 1..Len(trace) :
    /\ trace[k] = Enter(i)
    /\ \A j \in 1..(k - 1) : trace[j] # Enter(i)
AllEnteredBeforeTerminal ==
  \A i \in 1..(Len(chain) - 1) :
    /\ Enter(i) \in Range(trace)
    /\ FirstEnter(i) < FirstEnter(Len(chain))

\* the args of the context do not pass the schema of the endpoint
ArgsInvalid == ReqSchema # "none" /\ ~SchemaAccepts(ReqSchema, sctx.args)

\* C32: the schema is applied in the terminal stage, after every middleware
\* was entered, to the args as they are in ctx.args then, changes made by
\* middleware included; the implementation is handed the output of the
\* schema and not the raw args; and when a middleware returns without
\* calling next() nothing is validated and invalid args are not answered 422.
C32_ValidationInTerminal ==
  InPipeline =>
    /\ TerminalRan => AllEnteredBeforeTerminal
    /\ zodRejects > 0 => ArgsInvalid /\ implRuns = 0
    /\ implRuns > 0 =>
         /\ ~ArgsInvalid
         /\ implArgs = IF ReqSchema = "none" THEN sctx.args
                        ELSE SchemaOutput(ReqSchema, sctx.args)
    /\ (Done /\ shortCut) =>
         /\ zodRejects = 0
         /\ ArgsInvalid => resp.status # 422

\* the request carried a title too short for the schema; a middleware set
\* ctx.args.title and another key; the schema accepted the args and the
\* implementation received the title alone
C32_Witness ==
  /\ Done /\ ReqNode = <<NPosts, NCreate>>
  /\ req.body = Body("msgpack", "title" :> Str("Hi"))
  /\ chain = <<"setctx", "terminal">>
  /\ sctx.args = ("title" :> Str("Hello")) @@ ("extra" :> Str("x"))
  /\ zodRejects = 0 /\ implRuns = 1
  /\ implArgs = ("title" :> Str("Hello"))
  /\ resp.status = 201


(***************************************************************************)
(* C33: how a failure travels up the pipeline.                             *)
(***************************************************************************)
\* a stage is running
StageActive == spc = "run" /\ stack # <<>>

\* the failure of the next() it awaits is being delivered to the stage on
\* top of the stack
FailureDelivered == StageActive /\ ret.kind = "error"

\* the stage on top of the stack is a middleware that throws when invoked
ThrowingStageEntered ==
  /\ StageActive /\ Top(stack).phase = "enter" /\ ~IsTerminal(Top(stack))
  /\ chain[Top(stack).idx] = "throw"

\* the stage on top of the stack finishes, handing what it settled with to
\* the stage before it, and no stage is entered
TopStageLeaves ==
  /\ stack' = Pop(stack)
  /\ trace' = Append(trace, Leave(Top(stack).idx))

\* C33: a failure raised in stage i is the failure of the next() stage i-1
\* awaits, then of the one stage i-2 awaits, and so on upwards; a stage it
\* reaches either fails with the same failure or, catching it, returns a
\* value that the stage above receives as the result of its next(); no stage
\* is entered because of it; uncaught, it is the failure of the pipeline
\* call. It is stated of the steps of the request (an attachment made
\* meanwhile is no step of it).
C33_FailureTravelsUp ==
  [][/\ ThrowingStageEntered =>
          TopStageLeaves /\ ret' = Failure("Error")
     /\ FailureDelivered =>
          /\ Top(stack).phase = "await"
          /\ trace[Len(trace)] = Leave(Top(stack).idx + 1)
          /\ TopStageLeaves
          /\ \/ ret' = ret
             \/ Top(stack).beh = "catch" /\ ret'.kind = "value"
     /\ (spc = "run" /\ stack = <<>> /\ ret.kind = "error") =>
          /\ spc' = "done" /\ UNCHANGED <<ret, trace, mwRuns, implRuns>>
          /\ resp'.status \in {422, 500}]_<<spc, stack, ret, trace, resp>>

\* the implementation threw below two middleware: each of them was entered
\* once and left once, innermost first, and the handler saw that failure
C33_Witness ==
  /\ Done /\ sctx.made
  /\ chain = <<"pass", "setctx", "terminal">>
  /\ trace = <<Enter(1), Enter(2), Enter(3), Leave(3), Leave(2), Leave(1)>>
  /\ ret = Failure("Error")
  /\ mwRuns = 2 /\ implRuns = 1
  /\ resp.status = 500


(***************************************************************************)
(* C34: the abort protocol of fetchWithXhr.                                *)
(***************************************************************************)
\* the transport stage was the last to finish
TransportLeft == trace # <<>> /\ trace[Len(trace)] = Leave(Len(chain))

\* the call goes through fetchWithXhr
ViaXhr == cpc # "idle" /\ net.via = "xhr"

\* C34: with fetchWithXhr, a signal that is already aborted makes the
\* transport fail at once with the aborted error and no request is opened or
\* sent; a signal aborted while the request is in flight cancels the request
\* (no response arrives) and the transport fails with the same aborted error;
\* and the abort listener is on the signal only while the request is in
\* flight: after load, network error or abort it has been removed.
C34_XhrAbortProtocol ==
  /\ (ViaXhr /\ signal.at = "before") =>
       /\ net.sent = 0 /\ ~net.listening /\ cpc \notin {"net", "body"}
       /\ TransportLeft => ret = Failure("AbortError")
  /\ (ViaXhr /\ signal.at = "inFlight") =>
       /\ cpc \notin {"net", "body"} /\ net.status = 0
       /\ TransportLeft => ret = Failure("AbortError")
  /\ net.listening => (cpc = "net" /\ net.via = "xhr")
  /\ (cpc = "net" /\ net.via = "xhr") => net.listening

\* the signal was aborted while the one request of the call was in flight
C34_Witness ==
  /\ Settled /\ net.via = "xhr" /\ net.sent = 1
  /\ signal.at = "inFlight" /\ net.status = 0 /\ ~net.listening
  /\ chain = <<Transport>>
  /\ outcome = Failure("AbortError")


(***************************************************************************)
(* C35: the format and the status of a serialised response.                *)
(***************************************************************************)
\* the request's Accept header contains application/json
PrefersJson == Includes(req.accept, "application/json")

\* what makeResponse was given: the result of the pipeline, or the issues
SerialisedValue == IF ret.kind = "value" THEN ret.val ELSE "issues"

\* a response built by makeResponse has been returned
SerialisedResponse == Done /\ ctxCreated = 1 /\ Serialised

ContentTypeByAccept ==
  /\ HeadersHas(resp.headers, "Content-Type")
  /\ resp.headers[HeaderName("Content-Type")] =
       (IF PrefersJson THEN "application/json" ELSE "application/msgpack")

\* C35, as claimed: every response serialised from a result or from
\* validation issues has a JSON body and Content-Type application/json when
\* the request's Accept header contains application/json, a MessagePack body
\* and Content-Type application/msgpack otherwise (an absent Accept header
\* included), and its status is the status of the context.
C35_ResponseFormat ==
  SerialisedResponse =>
    /\ ContentTypeByAccept
    /\ resp.body = [kind |-> IF PrefersJson THEN "json" ELSE "msgpack",
                    val |-> SerialisedValue]
    /\ resp.status = sctx.status

\* C35, amended: the same, except that a result that is undefined, asked for
\* as JSON, is answered with Content-Type application/json and no body at
\* all (JSON.stringify(undefined) is undefined).
C35_ResponseFormatOfDefined ==
  SerialisedResponse =>
    /\ ContentTypeByAccept
    /\ (PrefersJson /\ SerialisedValue = "undefined") => resp.body.kind = "none"
    /\ ~(PrefersJson /\ SerialisedValue = "undefined") =>
         resp.body = [kind |-> IF PrefersJson THEN "json" ELSE "msgpack",
                      val |-> SerialisedValue]
    /\ resp.status = sctx.status

\* a middleware set the status to 201 and the client asked for JSON
C35_Witness ==
  /\ SerialisedResponse /\ PrefersJson
  /\ chain = <<"setctx", "terminal">>
  /\ sctx.status = 201 /\ resp.status = 201
  /\ resp.body = [kind |-> "json", val |-> "implResult"]
  /\ resp.headers[HeaderName("Content-Type")] = "application/json"


(***************************************************************************)
(* C36: a route is a path that names a descriptor exactly.                 *)
(***************************************************************************)
\* a path is below a descriptor when a proper prefix of it names one
BelowDescriptor(segments) ==
  \E k \in 1..(Len(segments) - 1) : SubSeq(segments, 1, k) \in Endpoints

\* what the segments of a path string name in the API definition
KindOfPath(p) ==
  LET segments == Split(p, "/") IN
  IF p = <<>> THEN "empty"
  ELSE IF segments \in Endpoints THEN "descriptor"
  ELSE IF segments \in Groups THEN "group"
  ELSE IF BelowDescriptor(segments) THEN "below"
  ELSE "unknown"

PathKind == [p \in RequestPaths |-> KindOfPath(p)]

\* C36: an implementation is invoked only for a path that names a descriptor
\* exactly; a GET or POST request whose path is empty, names a group, goes on
\* below a descriptor or has an unknown segment is answered 404 "RPC method
\* not found", and whatever the method no context is constructed and no
\* middleware or implementation runs for such a path.
C36_ExactRoute ==
  Arrived =>
    /\ implRuns > 0 => PathKind[req.path] = "descriptor"
    /\ PathKind[req.path] \in {"empty", "group", "below", "unknown"} =>
         /\ Done /\ ctxCreated = 0 /\ NothingExecuted /\ implArgs = EmptyArgs
         /\ MethodAllowed => AnsweredText(404, "RPC method not found")
         /\ resp.status \in {404, 405}


(***************************************************************************)
(* C37: the chain of a client call is the one assembled when it started.   *)
(***************************************************************************)
\* a cfg assignment is made
Assigned == assignLog' # assignLog

\* C37: the stages of a client call are those registered when the call
\* started, in assembly order; no step taken while the call is in flight
\* changes them, an assignment made meanwhile leaves the chain and the
\* running stages as they are, and a call started afterwards has the stages
\* of every assignment made before it.
C37_ChainSnapshot ==
  [][/\ (InCall /\ InCall') => chain' = chain
     /\ (InCall /\ Assigned) =>
          /\ UNCHANGED <<chain, stack, trace, ret, call, cpc>>
          /\ chain = ExpectedStages(SubSeq(assignLog', 1, call.logLen), call.path)
     /\ (~InCall /\ InCall') =>
          /\ call'.logLen = Len(assignLog)
          /\ chain' = ExpectedStages(assignLog, call'.path)]_vars

\* a global middleware was registered while the request of a call without
\* middleware was in flight; the call finished with its one stage
C37_Witness ==
  /\ Settled /\ call.path = <<NUsers, NGetProfile>>
  /\ call.logLen = 0 /\ Len(assignLog) = 1 /\ assignLog[1].key = <<>>
  /\ AssembleMiddlewares(mwMap, call.path) = <<Mw(1, 1)>>
  /\ chain = <<Transport>>
  /\ trace = <<Enter(1), Leave(1)>>


(***************************************************************************)
(* C38: what a client call leaves of the caller's inputs.                  *)
(***************************************************************************)
\* C38: a call leaves the Headers object the caller passed in options as it
\* was: the Accept and the Content-Type the client sets are not written to
\* it, and so a later call with the same options object starts from the
\* headers the caller gave.
C38_CallerHeadersUntouched ==
  Built => wcall.after = wcall.headers


(***************************************************************************)
(* C39: what camelToKebabCase makes of acronyms.                           *)
(***************************************************************************)
Normalised(name) == wpc = "kebab" /\ wkeys.reg = <<name>>

KebabGetUserId  == <<"g","e","t","-","u","s","e","r","-","i","d">>
KebabHttpServer == <<"h","t","t","p","-","s","e","r","v","e","r">>
KebabV2Parser   == <<"v","2","-","p","a","r","s","e","r">>
KebabGetUseRid  == <<"g","e","t","-","u","s","e","-","r","i","d">>

\* C39, as claimed: camelToKebabCase maps getUserID to get-user-id,
\* HTTPServer to http-server, v2Parser to v2-parser and getUSERid to
\* get-user-id, and applied to its own output it changes nothing.
C39_KebabAsClaimed ==
  /\ Normalised(NGetUserID) => wkeys.key = KebabGetUserId
  /\ Normalised(NHTTPServer) => wkeys.key = KebabHttpServer
  /\ Normalised(NV2Parser) => wkeys.key = KebabV2Parser
  /\ Normalised(NGetUSERid) => wkeys.key = KebabGetUserId
  /\ wpc = "kebab" => wkeys.regTail = wkeys.key

\* C39, amended: camelToKebabCase maps getUserID to get-user-id, HTTPServer
\* to http-server and v2Parser to v2-parser; it maps getUSERid to get-use-rid
\* (the run of upper-case letters gives its last letter to the pair that
\* follows the hyphen: get-USE-Rid); its output has no upper-case letter, and
\* applied to its own output it changes nothing.
C39_KebabOfAcronyms ==
  /\ Normalised(NGetUserID) => wkeys.key = KebabGetUserId
  /\ Normalised(NHTTPServer) => wkeys.key = KebabHttpServer
  /\ Normalised(NV2Parser) => wkeys.key = KebabV2Parser
  /\ Normalised(NGetUSERid) => wkeys.key = KebabGetUseRid
  /\ wpc = "kebab" =>
       /\ wkeys.regTail = wkeys.key
       /\ \A i \in 1..Len(wkeys.key) : ~IsUpper(wkeys.key[i])

\* getUSERid was normalised, twice
C39_Witness ==
  /\ Normalised(NGetUSERid)
  /\ wkeys.key = KebabGetUseRid /\ wkeys.regTail = KebabGetUseRid

====
